---- MODULE Spec2Model ----
(***************************************************************************)
(* A model of the letrboxd solver pool (site/solver-pool.mjs): the main    *)
(* thread's SolverPool, the solver workers it posts to, and the messages   *)
(* in flight between them.                                                 *)
(*                                                                         *)
(* One action is one task of a JavaScript event loop: a message handler or *)
(* a timer callback run up to its first `await`, followed by the           *)
(* microtasks (promise reactions) it leaves behind.                        *)
(***************************************************************************)
EXTENDS Integers, Sequences, FiniteSets, TLC

\* ---------------------------------------------------------------- bounds
\* Largest number of workers a pool is constructed with.
MaxSolvers == 2
\* Largest candidate list (wordCount) a board yields.
MaxWords == 2
\* Largest candidate list of the boards given to a pool of a single worker.
MaxRange == 5
\* Largest request id the page hands to the pool.
MaxRequestId == 2
\* Largest candidate list registered in the solver.
MaxCandidates == 5
\* Largest number of lines of a dictionary.
MaxDictionary == 4
\* Largest list of solutions handed to the sorter worker.
MaxSorted == 3
\* Largest number of pending expansions of a SolutionList.
MaxPending == 2

\* ------------------------------------------------------ program constants
\* `null`, the initial value of both activeRequestId fields.
Null == -1
\* const maxSections = 4
maxSections == 4
\* The five word-count buckets of #solutions.
BucketCount == 5

Min(a, b) == IF a < b THEN a ELSE b

\* --------------------------------------------------------------- state
VARIABLES
  solverCount,          \* this.#workers.length
  wasmBinary,           \* progress of #broadcastWasmBinary
  workerReady,          \* worker.ready is resolved
  readyCallbacks,       \* reactions registered on an unresolved worker.ready
  hasPendingRequests,   \* worker.hasPendingRequests
  solutions,            \* this.#solutions
  poolActiveRequestId,  \* this.#activeRequestId
  activeWorkerCount,    \* this.#activeWorkerCount
  rangeClosure,         \* locals of the ValidWordsResponse case shared by its callbacks
  inbox,                \* messages posted to each worker, not yet handled
  toPool,               \* messages posted by each worker, not yet handled
  wasmInitialized,      \* the worker's wasmInitialized
  workerActiveRequestId,\* the worker's activeRequestId
  validWords,           \* the list registered in the worker's WASM module
  timers,               \* SolutionsRequest handlers suspended in waitForTick
  registeredBy,         \* history: the request whose handler registered validWords
  dispatched,           \* the SolutionsUpdated event dispatched by the last step
  postedRanges,         \* history: the active request's range posted to each worker
  postedValidWords,     \* history: workers posted a ValidWordsRequest of the active request
  emitted,              \* history: responses posted for the worker's latest request
  searched,             \* history: solver calls of the active request per first-word index
  acceptedFinals,       \* history: final emissions accepted for the active request
  finalSnapshots,       \* history: final snapshots dispatched for the active request
  activeRequestId,      \* the page's activeRequestId
  value,                \* letrboxdInput.value
  datesByInput,         \* progress of datesByInputPromise
  inputChangedHandlers, \* InputChanged listeners suspended on datesByInputPromise
  solutionLists,        \* what the five solution lists were last set to
  solutionsHeaderCount, \* the count shown in the solutions header
  noSolutionsCard,      \* visibility of the no-solutions card
  delivered,            \* a message handed to a receiver's dispatch, with the outcome
  candidates,           \* the candidate list registered in the solver
  solverRange,          \* the index range the solver is called with
  solutionsPayload,     \* the SolutionsPayload the call returned
  asciiLetters,         \* the letters pushed onto a LetterSequence
  letterSequence,       \* the LetterSequence they were pushed onto
  puzzleBoard,          \* the board getValidWords is called with
  dictionaryWords,      \* the lines of the dictionary
  candidateWords,       \* the candidate words the filter produced
  encodedWords,         \* the serialized candidate list
  decodedWords,         \* the list registerValidWords stored
  solversParameter,     \* the value of the URL's `solvers` parameter
  hardwareConcurrency,  \* navigator.hardwareConcurrency
  sortRequest,          \* the message handed to the sorter worker
  sortResponse,         \* the SortedSolutionsResponse it posted
  solutionList,         \* a SolutionList element: its fields and pending callbacks
  sorterInbox,          \* messages posted to the list's sorter worker
  sorterOutbox,         \* messages the sorter worker posted to the list
  letrBoxdInput         \* a LetrBoxdInput element: its sides, cells and last event

poolVars == <<solverCount, wasmBinary, workerReady, readyCallbacks,
              hasPendingRequests, solutions, poolActiveRequestId,
              activeWorkerCount, rangeClosure>>
workerVars == <<wasmInitialized, workerActiveRequestId, validWords, timers,
                registeredBy>>
historyVars == <<postedRanges, postedValidWords, emitted, searched,
                 acceptedFinals, finalSnapshots>>
pageVars == <<activeRequestId, value, datesByInput, inputChangedHandlers,
              solutionLists, solutionsHeaderCount, noSolutionsCard>>
letterVars == <<asciiLetters, letterSequence>>
filterVars == <<puzzleBoard, dictionaryWords, candidateWords, encodedWords,
                decodedWords>>
constructVars == <<solversParameter, hardwareConcurrency>>
sortVars == <<sortRequest, sortResponse>>
listVars == <<solutionList, sorterInbox, sorterOutbox>>
inputVars == <<letrBoxdInput>>
elementVars == <<sortVars, listVars, inputVars>>
solverVars == <<candidates, solverRange, solutionsPayload, letterVars,
                filterVars, constructVars, elementVars>>
vars == <<poolVars, inbox, toPool, workerVars, dispatched, historyVars,
          pageVars, delivered, solverVars>>

Workers == 0 .. (solverCount - 1)
RequestIds == 1 .. MaxRequestId
Buckets == 1 .. BucketCount
\* static #INPUT_COUNT = 12
InputCount == 12
\* Twelve distinct letters, the sides of a board in reading order.
Alphabet == <<"A", "B", "C", "D", "E", "F", "G", "H", "I", "J", "K", "L">>
\* The board with the alphabet rotated by n: a valid puzzle input.
Board(n) == [i \in 1 .. InputCount |-> Alphabet[((i - 1 + n) % InputCount) + 1]]
\* #top = #right = #bottom = #left = "___": the value of an empty input.
Blank == [i \in 1 .. InputCount |-> "_"]
\* The puzzle inputs the pool is given.
Inputs == {Board(n) : n \in 0 .. MaxWords}
\* The inputs given to a pool of a single worker.
LargeInputs == {Board(n) : n \in 0 .. MaxRange}
\* The indexes of a candidate list.
WordIndexes == 0 .. ((IF MaxWords > MaxRange THEN MaxWords ELSE MaxRange) - 1)

\* -------------------------------------------------- the WASM module
\* The dictionary: Board(n) has n candidate words; a text without an A has
\* none. A candidate list is identified by its length.
CandidateCount(text) ==
  IF \E i \in 1 .. Len(text) : text[i] = "A"
  THEN (InputCount + 1 - (CHOOSE i \in 1 .. Len(text) : text[i] = "A"))
         % InputCount
  ELSE 0

\* wasm.getValidWords(text): the candidate list of the board and its size.
getValidWords(text) ==
  [wordCount |-> CandidateCount(text), serializedWords |-> CandidateCount(text)]

\* Bytes that are no serialized candidate list.
Malformed == -2

\* registerValidWords panics if the serialized words cannot be deserialized.
Decodes(serializedWords) == serializedWords # Malformed

\* wasm.registerValidWords(serializedWords): the list the module now holds.
registerValidWords(serializedWords) == serializedWords

\* The number of words of a solution whose first word has index `first`.
WordsInSolution(first) == (first % BucketCount) + 1

RECURSIVE SolutionsFrom(_, _, _, _)
SolutionsFrom(words, bucket, start, end) ==
  IF start >= end \/ start >= words THEN <<>>
  ELSE IF WordsInSolution(start) = bucket
       THEN <<[words |-> words, first |-> start]>>
              \o SolutionsFrom(words, bucket, start + 1, end)
       ELSE SolutionsFrom(words, bucket, start + 1, end)

\* wasm.solutions(start, end) against the registered list: per bucket, the
\* solutions whose first word has an index in [start, end).
wasmSolutions(registered, start, end) ==
  [b \in Buckets |->
     IF registered = Null THEN <<>> ELSE SolutionsFrom(registered, b, start, end)]

EmptySolutions == [b \in Buckets |-> <<>>]

\* No SolutionsResponse posted yet.
NothingEmitted == [requestId |-> Null, count |-> 0, finals |-> 0]

\* --------------------------------------------------- LetterSequence
\* A u64 as its bits: element k is bit k - 1.
WordBits == 64
LetterBits == 5
Capacity == 12
Letters ==
  <<"A", "B", "C", "D", "E", "F", "G", "H", "I", "J", "K", "L", "M",
    "N", "O", "P", "Q", "R", "S", "T", "U", "V", "W", "X", "Y", "Z">>

\* letter - 'A'
LetterCode(letter) == (CHOOSE c \in 1 .. Len(Letters) : Letters[c] = letter) - 1
Pow2(n) == IF n = 0 THEN 1 ELSE IF n = 1 THEN 2 ELSE IF n = 2 THEN 4
           ELSE IF n = 3 THEN 8 ELSE IF n = 4 THEN 16 ELSE IF n = 5 THEN 32
           ELSE IF n = 6 THEN 64 ELSE 128
BitOf(number, b) == (number \div Pow2(b)) % 2

\* The empty sequence: the length-tracker bit alone, at bit 0.
EmptySequence == [k \in 1 .. WordBits |-> IF k = 1 THEN 1 ELSE 0]

\* value << n on 64 bits
ShiftLeft(s, n) == [k \in 1 .. WordBits |-> IF k > n THEN s[k - n] ELSE 0]

\* push: shift the whole word left by five, OR the code into the low bits.
push(s, letter) ==
  LET shifted == ShiftLeft(s, LetterBits)
  IN [k \in 1 .. WordBits |->
        IF k <= LetterBits
        THEN IF shifted[k] = 1 THEN 1 ELSE BitOf(LetterCode(letter), k - 1)
        ELSE shifted[k]]

\* The position of the length-tracker bit: the highest bit set.
TrackerBit(s) ==
  (CHOOSE k \in 1 .. WordBits :
     s[k] = 1 /\ \A j \in (k + 1) .. WordBits : s[j] = 0) - 1

\* len: the position of the length-tracker bit over five.
len(s) == TrackerBit(s) \div LetterBits

\* The five bits starting at bit `low`, as a number.
FiveBits(s, low) ==
  s[low + 1] + 2 * s[low + 2] + 4 * s[low + 3] + 8 * s[low + 4]
    + 16 * s[low + 5]

\* Mutant: letter i is read from the low end.
atFromLow(s, i) == Letters[FiveBits(s, LetterBits * i) + 1]

\* at(s, i), 0 the oldest: the five bits starting at 5 * (len - 1 - i).
at(s, i) == Letters[FiveBits(s, LetterBits * (len(s) - 1 - i)) + 1]

\* from_ascii: TooLong above twelve letters, BadChar for anything else than
\* a letter, else the letters pushed in order.
RECURSIVE PushAll(_, _)
PushAll(s, text) ==
  IF text = <<>> THEN s ELSE PushAll(push(s, Head(text)), Tail(text))

TooLong == <<"TooLong">>
BadChar == <<"BadChar">>
\* Whether from_ascii returned an error and no u64.
IsError(result) == Len(result) # WordBits

from_ascii(text) ==
  IF Len(text) > Capacity THEN TooLong
  ELSE IF \E i \in 1 .. Len(text) :
            text[i] \notin {Letters[c] : c \in 1 .. Len(Letters)}
       THEN BadChar
  ELSE PushAll(EmptySequence, text)

to_ascii(s) == [i \in 1 .. len(s) |-> at(s, i - 1)]

\* The letters a sequence is built from in the runs below.
PushedLetters == {"A", "Z"}

\* A sequence is built letter by letter.
NoLetterSequence ==
  /\ asciiLetters = <<>>
  /\ letterSequence = EmptySequence

PushLetter(letter) ==
  /\ len(letterSequence) < Capacity
  /\ asciiLetters' = Append(asciiLetters, letter)
  /\ letterSequence' = push(letterSequence, letter)
  /\ dispatched' = <<>>
  /\ UNCHANGED <<poolVars, inbox, toPool, workerVars, historyVars, pageVars,
                 delivered, candidates, solverRange, solutionsPayload,
                 filterVars,
                 constructVars, elementVars>>

\* No board, no dictionary, nothing filtered.
NoFilterCall ==
  /\ puzzleBoard = Blank
  /\ dictionaryWords = <<>>
  /\ candidateWords = <<>>
  /\ encodedWords = <<>>
  /\ decodedWords = <<>>

\* ------------------------------------------------------------- Init
\* The state a `new SolverPool(count)` leaves behind.
NewSolverPool(count) ==
  /\ solverCount = count
  /\ wasmBinary = "fetching"
  /\ workerReady = [w \in Workers |-> FALSE]
  /\ readyCallbacks = [w \in Workers |-> <<>>]
  /\ hasPendingRequests = [w \in Workers |-> FALSE]
  /\ solutions = EmptySolutions
  /\ poolActiveRequestId = Null
  /\ activeWorkerCount = 0
  /\ rangeClosure = <<>>
  /\ inbox = [w \in Workers |-> <<>>]
  /\ toPool = [w \in Workers |-> <<>>]
  /\ wasmInitialized = [w \in Workers |-> FALSE]
  /\ workerActiveRequestId = [w \in Workers |-> Null]
  /\ validWords = [w \in Workers |-> Null]
  /\ timers = [w \in Workers |-> <<>>]
  /\ registeredBy = [w \in Workers |-> Null]
  /\ dispatched = <<>>
  /\ postedRanges = [w \in Workers |-> <<>>]
  /\ postedValidWords = <<>>
  /\ emitted = [w \in Workers |-> NothingEmitted]
  /\ searched = [i \in WordIndexes |-> 0]
  /\ acceptedFinals = [w \in Workers |-> 0]
  /\ finalSnapshots = 0
  /\ activeRequestId = 0
  /\ value = Blank
  /\ datesByInput = "fetching"
  /\ inputChangedHandlers = <<>>
  /\ solutionLists = [requestId |-> Null, solutions |-> EmptySolutions]
  /\ solutionsHeaderCount = 0
  /\ noSolutionsCard = "hidden"
  /\ delivered = <<>>

\* --------------------------------------------------- the SolutionList
\* #CHUNK_SIZE = 500
CHUNK_SIZE == 500

\* A list of solutions is told by the request it belongs to and its length;
\* entry i of the sorted list of request r is the pair (r, i).
Solutions(requestId, count) == [requestId |-> requestId, count |-> count]
\* `await null`: the value an #expand gets when no sort was requested.
NoSortedSolutions == Solutions(Null, -1)
\* The lengths of the lists the page hands to a SolutionList.
SolutionCounts == {0, 1, CHUNK_SIZE + 1}

EmptyContent == [spinner |-> FALSE, chunks |-> <<>>]

\* The element after connectedCallback: #updateUI() found no solutions.
ConnectedSolutionList ==
  [activeRequestId |-> Null,
   solutions |-> Solutions(Null, 0),
   sortedPromises |-> <<>>,
   sortedSolutionsPromise |-> 0,
   headerExpanded |-> FALSE,
   disabled |-> TRUE,
   content |-> EmptyContent,
   currentChunkIndex |-> 0,
   scrollListeners |-> <<>>,
   idleCallbacks |-> <<>>,
   expanders |-> <<>>,
   doneTimers |-> <<>>,
   faulted |-> FALSE]

\* #maybeRemoveScrollHandler(): the listener #scrollHandler refers to is
\* removed; listeners it no longer refers to stay attached.
maybeRemoveScrollHandler(list) ==
  [list EXCEPT !.scrollListeners = SelectSeq(@, LAMBDA l : ~l.current)]

\* #collapse()
collapse(list) ==
  [maybeRemoveScrollHandler(list) EXCEPT !.headerExpanded = FALSE,
                                         !.content = EmptyContent]

\* The doneCallback #expand hands to #appendNextChunk.
doneCallback(list, sortedSolutions, requestId) ==
  [list EXCEPT !.scrollListeners =
     Append([n \in 1 .. Len(@) |-> [@[n] EXCEPT !.current = FALSE]],
            [requestId |-> requestId, sortedSolutions |-> sortedSolutions,
             current |-> TRUE])]

\* #appendNextChunk(sortedSolutions, requestId, doneCallback)
appendNextChunk(list, sortedSolutions, requestId, hasCallback) ==
  LET done == IF hasCallback
              THEN doneCallback(list, sortedSolutions, requestId) ELSE list
      start == list.currentChunkIndex
      end == Min(start + CHUNK_SIZE, sortedSolutions.count)
  IN IF requestId # list.activeRequestId THEN done
     \* sortedSolutions.length of null throws a TypeError
     ELSE IF sortedSolutions = NoSortedSolutions
     THEN [list EXCEPT !.faulted = TRUE]
     ELSE IF start >= sortedSolutions.count THEN done
     ELSE [list EXCEPT
             !.content.chunks =
                Append(@, [requestId |-> sortedSolutions.requestId,
                           start |-> start, end |-> end]),
             !.currentChunkIndex = end,
             !.doneTimers =
                IF hasCallback
                THEN Append(@, [requestId |-> requestId,
                                sortedSolutions |-> sortedSolutions])
                ELSE @]

\* Mutant: a resumed #expand renders whatever it awaited.
expandAbandonedNever(list, requestId) == FALSE

\* if (requestId !== this.#activeRequestId) { reject(); return promise; }
expandAbandoned(list, requestId) == requestId # list.activeRequestId

\* #expand after `await this.#sortedSolutionsPromise`.
expandResume(list, requestId, sortedSolutions) ==
  IF expandAbandoned(list, requestId) THEN list
  ELSE appendNextChunk([list EXCEPT !.content = EmptyContent],
                       sortedSolutions, requestId, TRUE)

\* this.#content.classList.contains("expanded"): the class is only ever put
\* on the header.
contentClassExpanded(list) == FALSE

\* #expand(requestId) up to its await and, where the awaited value is there
\* already (null, or a resolved promise), the continuation that follows as a
\* microtask; an #expand awaiting a pending promise is suspended.
expand(list, requestId) ==
  IF requestId # list.activeRequestId THEN list
  ELSE IF contentClassExpanded(list) /\ ~list.content.spinner THEN list
  ELSE
    LET opened == [maybeRemoveScrollHandler(list) EXCEPT
                     !.headerExpanded = TRUE, !.currentChunkIndex = 0]
        awaited == list.sortedSolutionsPromise
    IN IF awaited = 0
       THEN expandResume(opened, requestId, NoSortedSolutions)
       ELSE IF list.sortedPromises[awaited].settled
       THEN expandResume(opened, requestId, list.sortedPromises[awaited].value)
       ELSE [opened EXCEPT
               !.expanders = Append(@, [requestId |-> requestId,
                                        awaited |-> awaited])]

\* #requestSortedSolutions(requestId) up to requestIdleCallback.
requestSortedSolutions(list, requestId) ==
  [list EXCEPT
     !.sortedPromises = Append(@, [settled |-> FALSE, value |-> NoSortedSolutions]),
     !.sortedSolutionsPromise = Len(list.sortedPromises) + 1,
     !.idleCallbacks = Append(@, [type |-> "SortedSolutionsRequest",
                                  requestId |-> requestId,
                                  solutions |-> list.solutions])]

\* #updateUI(isFinalResponse)
updateUI(list, isFinalResponse) ==
  IF list.solutions.count = 0 /\ isFinalResponse
  THEN [collapse(list) EXCEPT !.disabled = TRUE]
  ELSE IF list.solutions.count > 0
  THEN [list EXCEPT !.disabled = FALSE]
  ELSE list

\* setSolutions(solutions, requestId, isFinalResponse)
setSolutions(list, count, requestId, isFinalResponse) ==
  LET fresh == IF requestId # list.activeRequestId
               THEN [collapse(list) EXCEPT !.activeRequestId = requestId,
                                          !.sortedSolutionsPromise = 0]
               ELSE list
      given == [fresh EXCEPT !.solutions = Solutions(requestId, count)]
      loading == IF given.content.spinner THEN given
                 ELSE [given EXCEPT !.content = [spinner |-> TRUE, chunks |-> <<>>]]
      requested == requestSortedSolutions(loading, requestId)
      final == IF requested.headerExpanded
               THEN expand(requested, requestId) ELSE requested
  IN updateUI(IF isFinalResponse THEN final ELSE loading, isFinalResponse)

\* The continuations of the #expand calls awaiting promise `awaited`, in the
\* order of their awaits.
RECURSIVE ResumeExpanders(_, _, _, _)
ResumeExpanders(list, waiting, awaited, sortedSolutions) ==
  IF waiting = <<>> THEN list
  ELSE ResumeExpanders(
         IF Head(waiting).awaited = awaited
         THEN expandResume(list, Head(waiting).requestId, sortedSolutions)
         ELSE list,
         Tail(waiting), awaited, sortedSolutions)

\* Mutant: the response of any request resolves the promise.
staleSortedResponseNever(requestId, active) == FALSE

\* if (requestId !== this.#activeRequestId) return;  -- #handleWorkerMessage
staleSortedResponse(requestId, active) == requestId # active

\* #handleWorkerMessage, case "SortedSolutionsResponse", with the
\* continuations the resolved promise releases.
handleWorkerMessage(list, data) ==
  LET awaited == list.sortedSolutionsPromise
  IN IF staleSortedResponse(data.requestId, list.activeRequestId) THEN list
     \* this.#resolveSortedSolutionsPromise is null
     ELSE IF awaited = 0 THEN [list EXCEPT !.faulted = TRUE]
     ELSE IF list.sortedPromises[awaited].settled THEN list
     ELSE ResumeExpanders(
            [list EXCEPT
               !.sortedPromises[awaited] =
                  [settled |-> TRUE, value |-> data.sortedSolutions],
               !.expanders = SelectSeq(@, LAMBDA e : e.awaited # awaited)],
            list.expanders, awaited, data.sortedSolutions)

\* #onScroll(sortedSolutions, requestId), near the bottom.
onScroll(list, sortedSolutions, requestId) ==
  IF requestId # list.activeRequestId THEN maybeRemoveScrollHandler(list)
  ELSE IF ~list.headerExpanded THEN maybeRemoveScrollHandler(list)
  ELSE appendNextChunk(list, sortedSolutions, requestId, FALSE)

\* A scroll event: the listeners attached to the content run in order.
RECURSIVE DispatchScroll(_, _)
DispatchScroll(list, listeners) ==
  IF listeners = <<>> THEN list
  ELSE DispatchScroll(
         IF \E n \in 1 .. Len(list.scrollListeners) :
              list.scrollListeners[n] = Head(listeners)
         THEN onScroll(list, Head(listeners).sortedSolutions,
                       Head(listeners).requestId)
         ELSE list,
         Tail(listeners))

ListFrame ==
  /\ dispatched' = <<>>
  /\ UNCHANGED <<poolVars, inbox, toPool, workerVars, historyVars, pageVars,
                 delivered, candidates, solverRange, solutionsPayload,
                 letterVars, filterVars, constructVars, sortVars, inputVars>>

\* The page's SolutionsUpdated listener or clearSolutionLists hands the list
\* a snapshot: request ids never go back, a request's snapshots grow, and
\* its final snapshot is its last.
SetSolutions(count, requestId, isFinalResponse) ==
  /\ \/ requestId > solutionList.activeRequestId
     \/ /\ requestId = solutionList.activeRequestId
        /\ solutionList.sortedSolutionsPromise = 0
        /\ count >= solutionList.solutions.count
  /\ solutionList' = setSolutions(solutionList, count, requestId, isFinalResponse)
  /\ UNCHANGED <<sorterInbox, sorterOutbox>>
  /\ ListFrame

\* The header's click listener.
HeaderClick ==
  /\ ~solutionList.disabled
  /\ \/ solutionList.headerExpanded
     \/ Len(solutionList.expanders) + Len(solutionList.doneTimers)
          + Len(solutionList.scrollListeners) < MaxPending
  /\ solutionList' =
       IF solutionList.headerExpanded THEN collapse(solutionList)
       ELSE expand(solutionList, solutionList.activeRequestId)
  /\ UNCHANGED <<sorterInbox, sorterOutbox>>
  /\ ListFrame

\* The callback of requestIdleCallback in #requestSortedSolutions.
IdleCallback ==
  /\ solutionList.idleCallbacks # <<>>
  /\ LET request == Head(solutionList.idleCallbacks)
     IN sorterInbox' =
          IF request.requestId # solutionList.activeRequestId THEN sorterInbox
          ELSE Append(sorterInbox, request)
  /\ solutionList' = [solutionList EXCEPT !.idleCallbacks = Tail(@)]
  /\ UNCHANGED sorterOutbox
  /\ ListFrame

\* The list's sorter worker answers a SortedSolutionsRequest.
SorterWorker ==
  /\ sorterInbox # <<>>
  /\ sorterInbox' = Tail(sorterInbox)
  /\ sorterOutbox' =
       Append(sorterOutbox, [type |-> "SortedSolutionsResponse",
                             requestId |-> Head(sorterInbox).requestId,
                             sortedSolutions |-> Head(sorterInbox).solutions])
  /\ UNCHANGED solutionList
  /\ ListFrame

\* The list's worker.onmessage.
HandleWorkerMessage ==
  /\ sorterOutbox # <<>>
  /\ sorterOutbox' = Tail(sorterOutbox)
  /\ solutionList' = handleWorkerMessage(solutionList, Head(sorterOutbox))
  /\ UNCHANGED sorterInbox
  /\ ListFrame

\* The setTimeout(..., 0) of #appendNextChunk calls #expand's doneCallback.
DoneTimer ==
  /\ solutionList.doneTimers # <<>>
  /\ LET timer == Head(solutionList.doneTimers)
     IN solutionList' =
          doneCallback([solutionList EXCEPT !.doneTimers = Tail(@)],
                       timer.sortedSolutions, timer.requestId)
  /\ UNCHANGED <<sorterInbox, sorterOutbox>>
  /\ ListFrame

\* The user scrolls the shown content near its bottom.
Scroll ==
  /\ solutionList.headerExpanded
  /\ solutionList.scrollListeners # <<>>
  /\ solutionList' = DispatchScroll(solutionList, solutionList.scrollListeners)
  /\ UNCHANGED <<sorterInbox, sorterOutbox>>
  /\ ListFrame

\* ------------------------------------------------ the worker count
Digits == <<"0", "1", "2", "3", "4", "5", "6", "7", "8", "9">>
IsDigit(char) == \E d \in 1 .. Len(Digits) : Digits[d] = char
DigitValue(char) == (CHOOSE d \in 1 .. Len(Digits) : Digits[d] = char) - 1

NaN == [isNaN |-> TRUE, value |-> 0]
\* `undefined`, as maybeGetSolverCountFromUrl returns it.
undefined == -3

RECURSIVE TrimStart(_), DigitPrefix(_), DecimalValue(_, _)
TrimStart(text) ==
  IF text # <<>> /\ Head(text) = " " THEN TrimStart(Tail(text)) ELSE text
DigitPrefix(text) ==
  IF text # <<>> /\ IsDigit(Head(text))
  THEN <<Head(text)>> \o DigitPrefix(Tail(text)) ELSE <<>>
DecimalValue(digits, sofar) ==
  IF digits = <<>> THEN sofar
  ELSE DecimalValue(Tail(digits), 10 * sofar + DigitValue(Head(digits)))

\* parseInt(text, 10): leading white space, a sign, then the digits up to
\* the first character that is none; NaN without a digit.
parseInt(text) ==
  LET trimmed == TrimStart(text)
      negative == trimmed # <<>> /\ Head(trimmed) = "-"
      signed == trimmed # <<>> /\ Head(trimmed) \in {"-", "+"}
      digits == DigitPrefix(IF signed THEN Tail(trimmed) ELSE trimmed)
  IN IF digits = <<>> THEN NaN
     ELSE [isNaN |-> FALSE,
           value |-> IF negative THEN 0 - DecimalValue(digits, 0)
                     ELSE DecimalValue(digits, 0)]

\* urlParams.get("solvers") of a URL without the parameter: null, which
\* parseInt reads as the string "null".
NoParameter == <<"n", "u", "l", "l">>

\* Mutant: zero and negative counts are let through.
maybeGetSolverCountFromUrlAny(search) ==
  IF parseInt(search).isNaN THEN undefined ELSE parseInt(search).value

\* maybeGetSolverCountFromUrl(), with the parameter's value as `search`.
maybeGetSolverCountFromUrl(search) ==
  LET solvers == parseInt(search)
  IN IF solvers.isNaN \/ solvers.value <= 0 THEN undefined
     ELSE solvers.value

\* Mutant: one worker per hardware thread, without the cap.
defaultSolverCountUncapped(concurrency) == concurrency

\* SolverPool.#defaultSolverCount()
defaultSolverCount(concurrency) == Min(16, concurrency)

\* The length of #workers after new SolverPool(maybeGetSolverCountFromUrl()).
WorkerCount(search, concurrency) ==
  LET argument == maybeGetSolverCountFromUrl(search)
  IN IF argument = undefined THEN defaultSolverCount(concurrency)
     ELSE argument

\* Values of the `solvers` parameter and of navigator.hardwareConcurrency.
SolversParameters ==
  {NoParameter, <<>>, <<"0">>, <<"-", "2">>, <<"2">>, <<"+", "3">>,
   <<"1", "7">>, <<"2", ".", "5">>, <<"3", "x">>, <<"a", "b", "c">>,
   <<" ", "4">>, <<"0", "0", "7">>}
HardwareConcurrencies == {1, 4, 16, 17, 32}

\* The page was opened without a `solvers` parameter.
DefaultPage ==
  /\ solversParameter = NoParameter
  /\ hardwareConcurrency = solverCount

\* No list registered, no call made.
\* The sorter worker has been handed nothing.
NoSortCall ==
  /\ sortRequest = <<>>
  /\ sortResponse = <<>>

\* The page's workers and elements other than the pool are idle.
\* The solution list is connected and has been given nothing.
NoSolutionList ==
  /\ solutionList = ConnectedSolutionList
  /\ sorterInbox = <<>>
  /\ sorterOutbox = <<>>

\* The input element is connected and empty.
\* #top = #right = #bottom = #left = "___", #previousValue = "", and
\* input.textContent = "_" for each of the twelve cells.
ConnectedLetrBoxdInput ==
  [top |-> <<"_", "_", "_">>,
   right |-> <<"_", "_", "_">>,
   bottom |-> <<"_", "_", "_">>,
   left |-> <<"_", "_", "_">>,
   inputElements |-> [i \in 1 .. InputCount |-> "_"],
   previousValue |-> <<>>,
   inputChanged |-> FALSE]

NoLetrBoxdInput == letrBoxdInput = ConnectedLetrBoxdInput

NoElements == NoSortCall /\ NoSolutionList /\ NoLetrBoxdInput

NoWasmCall ==
  /\ candidates = <<>>
  /\ solverRange = [range_start |-> 0, range_end |-> 0]
  /\ solutionsPayload = <<>>
  /\ NoLetterSequence
  /\ NoFilterCall

NoSolverCall == NoWasmCall /\ DefaultPage /\ NoElements

Init == (\E count \in 1 .. MaxSolvers : NewSolverPool(count)) /\ NoSolverCall

\* new SolverPool(1), as with ?solvers=1
SingleInit == NewSolverPool(1) /\ NoSolverCall

\* ------------------------------------------- the pool (main thread)
\* if (requestId !== this.#activeRequestId) return;  -- in the response cases
\* Mutant: the id check accepts every response.
staleResponseNever(requestId, active) == FALSE

staleResponse(requestId, active) == requestId # active

\* isFinalResponse: this.#activeWorkerCount == 0
\* Mutant: the snapshot is called final one worker early.
allWorkersDoneEarly(count) == count <= 1

allWorkersDone(count) == count = 0

\* The state a promise reaction of worker.ready.then(...) reads and writes.
MainState == [inbox |-> inbox, rangeClosure |-> rangeClosure,
              hasPendingRequests |-> hasPendingRequests,
              postedRanges |-> postedRanges,
              postedValidWords |-> postedValidWords]

\* Mutant: the ValidWordsRequest is posted for a superseded request too.
ValidWordsCallbackAlways(cb, st, active) ==
  [st EXCEPT !.inbox[cb.worker] =
     Append(@, [type |-> "ValidWordsRequest",
                requestId |-> cb.requestId, text |-> cb.text]),
             !.postedValidWords = Append(@, cb.worker)]

\* The callback of sendSolutionsRequest's worker.ready.then: post the
\* ValidWordsRequest unless the request was superseded.
ValidWordsCallback(cb, st, active) ==
  IF cb.requestId # active THEN st
  ELSE [st EXCEPT !.inbox[cb.worker] =
          Append(@, [type |-> "ValidWordsRequest",
                     requestId |-> cb.requestId, text |-> cb.text]),
                  !.postedValidWords = Append(@, cb.worker)]

\* Mutant: the remainder is handed to one worker too many.
additionalElementOffByOne(workerIndex, remainder) ==
  IF workerIndex <= remainder THEN 1 ELSE 0

\* Mutant: the remainder is dropped.
additionalElementNone(workerIndex, remainder) == 0

\* const additionalElement = workerIndex < remainder ? 1 : 0
additionalElement(workerIndex, remainder) ==
  IF workerIndex < remainder THEN 1 ELSE 0

\* The callback of the ValidWordsResponse case's worker.ready.then: post the
\* worker's SolutionsRequest and advance the shared rangeStart.
SolutionsCallback(cb, st, active) ==
  IF cb.requestId # active THEN st
  ELSE
    LET closure == st.rangeClosure[1]
        rangeStart == closure.rangeStart
        rangeEnd == rangeStart + closure.sliceSize
                      + additionalElement(cb.worker, closure.remainder)
        solutionsRequest == [type |-> "SolutionsRequest",
                             requestId |-> cb.requestId,
                             serializedWords |-> closure.serializedWords,
                             rangeStart |-> rangeStart,
                             rangeEnd |-> rangeEnd]
    IN [st EXCEPT !.hasPendingRequests[cb.worker] = TRUE,
                  !.inbox[cb.worker] = Append(@, solutionsRequest),
                  !.rangeClosure = <<[closure EXCEPT !.rangeStart = rangeEnd]>>,
                  !.postedRanges[cb.worker] =
                     <<[requestId |-> cb.requestId,
                        rangeStart |-> rangeStart, rangeEnd |-> rangeEnd]>>]

RunCallback(cb, st, active) ==
  IF cb.kind = "ValidWords" THEN ValidWordsCallback(cb, st, active)
  ELSE SolutionsCallback(cb, st, active)

\* The microtask queue: reactions run in the order they were queued.
RECURSIVE RunCallbacks(_, _, _)
RunCallbacks(cbs, st, active) ==
  IF cbs = <<>> THEN st
  ELSE RunCallbacks(Tail(cbs), RunCallback(Head(cbs), st, active), active)

SetMainState(st) ==
  /\ inbox' = st.inbox
  /\ rangeClosure' = st.rangeClosure
  /\ hasPendingRequests' = st.hasPendingRequests
  /\ postedRanges' = st.postedRanges
  /\ postedValidWords' = st.postedValidWords

\* #broadcastWasmBinary, the fetch succeeded: one InitializeWasmRequest each.
BroadcastWasmBinary ==
  /\ wasmBinary = "fetching"
  /\ wasmBinary' = "broadcast"
  /\ inbox' = [w \in Workers |->
                 Append(inbox[w], [type |-> "InitializeWasmRequest"])]
  /\ dispatched' = <<>>
  /\ UNCHANGED <<solverCount, workerReady, readyCallbacks, hasPendingRequests,
                 solutions, poolActiveRequestId, activeWorkerCount,
                 rangeClosure, toPool, workerVars, historyVars>>
  /\ UNCHANGED <<pageVars, delivered, solverVars>>

\* #broadcastWasmBinary, the fetch failed: the error is logged, nothing is sent.
BroadcastWasmBinaryFails ==
  /\ wasmBinary = "fetching"
  /\ wasmBinary' = "failed"
  /\ dispatched' = <<>>
  /\ UNCHANGED <<solverCount, workerReady, readyCallbacks, hasPendingRequests,
                 solutions, poolActiveRequestId, activeWorkerCount,
                 rangeClosure, inbox, toPool, workerVars, historyVars>>
  /\ UNCHANGED <<pageVars, delivered, solverVars>>

\* Mutant: the buckets of the previous request are kept.
resetSolutionsKeeps == solutions

\* #resetSolutions()
resetSolutions == EmptySolutions

\* Mutant: the reactions do not wait for the worker's WasmInitialized.
settledAlways(worker) == TRUE

\* worker.ready.then(...): the reaction runs at once if worker.ready is
\* resolved, and waits for resolveReadyPromise() otherwise.
settled(worker) == workerReady[worker]

\* sendSolutionsRequest(requestId, input), with the reaction of
\* worker.ready.then when the worker is ready already.
sendSolutionsRequest(requestId, input) ==
  /\ poolActiveRequestId' = requestId
  /\ solutions' = resetSolutions
  /\ activeWorkerCount' = solverCount
  /\ acceptedFinals' = [w \in Workers |-> 0]
  /\ searched' = [i \in WordIndexes |-> 0]
  /\ finalSnapshots' = 0
  /\ LET worker == requestId % solverCount
         cb == [kind |-> "ValidWords", requestId |-> requestId,
                worker |-> worker, text |-> input]
         \* the closure of a superseded ValidWordsResponse is dead
         st == [MainState EXCEPT !.rangeClosure = <<>>,
                                 !.postedRanges = [w \in Workers |-> <<>>],
                                 !.postedValidWords = <<>>]
     IN IF settled(worker)
        THEN /\ SetMainState(RunCallbacks(<<cb>>, st, requestId))
             /\ UNCHANGED readyCallbacks
        ELSE /\ SetMainState(st)
             /\ readyCallbacks' = [readyCallbacks EXCEPT ![worker] = Append(@, cb)]
  /\ dispatched' = <<>>
  /\ UNCHANGED <<solverCount, wasmBinary, workerReady, toPool, workerVars,
                 emitted>>

\* #handleWorkerMessage, case "WasmInitialized": resolve worker.ready, which
\* runs the reactions registered on it.
PoolWasmInitialized(w) ==
  /\ toPool[w] # <<>>
  /\ Head(toPool[w]).type = "WasmInitialized"
  /\ toPool' = [toPool EXCEPT ![w] = Tail(@)]
  /\ workerReady' = [workerReady EXCEPT ![w] = TRUE]
  /\ readyCallbacks' = [readyCallbacks EXCEPT ![w] = <<>>]
  /\ SetMainState(RunCallbacks(readyCallbacks[w], MainState, poolActiveRequestId))
  /\ dispatched' = <<>>
  /\ UNCHANGED <<solverCount, wasmBinary, solutions, poolActiveRequestId,
                 activeWorkerCount, workerVars, emitted, searched,
                 acceptedFinals, finalSnapshots>>
  /\ UNCHANGED <<pageVars, delivered, solverVars>>

\* The workers in index order, as the for loop of the ValidWordsResponse case
\* visits them.
RECURSIVE WorkerIndexes(_, _)
WorkerIndexes(workerIndex, count) ==
  IF workerIndex >= count THEN <<>>
  ELSE <<workerIndex>> \o WorkerIndexes(workerIndex + 1, count)

SelectReady(indexes, requestId) ==
  LET ready == SelectSeq(indexes, LAMBDA i : settled(i))
  IN [n \in 1 .. Len(ready) |->
        [kind |-> "Solutions", requestId |-> requestId, worker |-> ready[n]]]

\* #handleWorkerMessage, case "ValidWordsResponse".
PoolValidWordsResponse(w) ==
  /\ toPool[w] # <<>>
  /\ Head(toPool[w]).type = "ValidWordsResponse"
  /\ toPool' = [toPool EXCEPT ![w] = Tail(@)]
  /\ LET data == Head(toPool[w])
         requestId == data.requestId
     IN IF staleResponse(requestId, poolActiveRequestId)
        THEN UNCHANGED <<readyCallbacks, inbox, rangeClosure,
                         hasPendingRequests, postedRanges,
                         postedValidWords>>
        ELSE
          LET wordCount == data.wordCount
              closure == [requestId |-> requestId,
                          wordCount |-> wordCount,
                          serializedWords |-> data.serializedWords,
                          sliceSize |-> wordCount \div solverCount,
                          remainder |-> wordCount % solverCount,
                          rangeStart |-> 0]
              st == [MainState EXCEPT !.rangeClosure = <<closure>>]
              indexes == WorkerIndexes(0, solverCount)
          IN /\ readyCallbacks' =
                  [i \in Workers |->
                     IF settled(i) THEN readyCallbacks[i]
                     ELSE Append(readyCallbacks[i],
                                 [kind |-> "Solutions", requestId |-> requestId,
                                  worker |-> i])]
             /\ SetMainState(RunCallbacks(SelectReady(indexes, requestId),
                                          st, poolActiveRequestId))
  /\ dispatched' = <<>>
  /\ UNCHANGED <<solverCount, wasmBinary, workerReady, solutions,
                 poolActiveRequestId, activeWorkerCount, workerVars,
                 emitted, searched, acceptedFinals, finalSnapshots>>
  /\ UNCHANGED <<pageVars, delivered, solverVars>>

\* Mutant: the response's solutions replace the buckets.
PushSolutionsReplaces(buckets, data) ==
  [b \in Buckets |->
     [n \in 1 .. Len(data.solutions[b]) |->
        [requestId |-> data.requestId,
         words |-> data.solutions[b][n].words,
         first |-> data.solutions[b][n].first]]]

\* this.#solutions[i].push(...): each pushed solution remembers the request id
\* of the SolutionsResponse that carried it.
PushSolutions(buckets, data) ==
  [b \in Buckets |->
     buckets[b] \o [n \in 1 .. Len(data.solutions[b]) |->
                      [requestId |-> data.requestId,
                       words |-> data.solutions[b][n].words,
                       first |-> data.solutions[b][n].first]]]

\* #handleWorkerMessage, case "SolutionsResponse", up to and including
\* document.dispatchEvent.
HandleSolutionsResponse(w) ==
  /\ toPool[w] # <<>>
  /\ Head(toPool[w]).type = "SolutionsResponse"
  /\ toPool' = [toPool EXCEPT ![w] = Tail(@)]
  /\ LET data == Head(toPool[w])
         requestId == data.requestId
     IN IF staleResponse(requestId, poolActiveRequestId)
        THEN /\ dispatched' = <<>>
             /\ UNCHANGED <<solutions, hasPendingRequests, activeWorkerCount,
                            acceptedFinals, finalSnapshots>>
        ELSE
          LET pushed == PushSolutions(solutions, data)
              count == IF data.isFinalResponse
                       THEN activeWorkerCount - 1 ELSE activeWorkerCount
              \* detail.solutions is this.#solutions itself
              event == [requestId |-> requestId,
                        isFinalResponse |-> allWorkersDone(count)]
          IN /\ solutions' = pushed
             /\ hasPendingRequests' =
                  IF data.isFinalResponse
                  THEN [hasPendingRequests EXCEPT ![w] = FALSE]
                  ELSE hasPendingRequests
             /\ activeWorkerCount' = count
             /\ acceptedFinals' =
                  IF data.isFinalResponse
                  THEN [acceptedFinals EXCEPT ![w] = @ + 1]
                  ELSE acceptedFinals
             /\ dispatched' = <<event>>
             /\ finalSnapshots' =
                  IF event.isFinalResponse
                  THEN finalSnapshots + 1 ELSE finalSnapshots
  /\ UNCHANGED <<solverCount, wasmBinary, workerReady, readyCallbacks,
                 poolActiveRequestId, rangeClosure, inbox, workerVars,
                 postedRanges, postedValidWords, emitted, searched>>

\* The SolutionsResponse task on a document without listeners.
PoolSolutionsResponse(w) ==
  /\ HandleSolutionsResponse(w)
  /\ UNCHANGED <<pageVars, delivered, solverVars>>

\* ------------------------------------------------ the solver worker
\* case "InitializeWasmRequest": initSync succeeds and WasmInitialized is
\* posted, or it throws and the error is logged.
WorkerInitializeWasm(w) ==
  /\ inbox[w] # <<>>
  /\ Head(inbox[w]).type = "InitializeWasmRequest"
  /\ inbox' = [inbox EXCEPT ![w] = Tail(@)]
  /\ \/ wasmInitialized[w] /\ UNCHANGED <<wasmInitialized, toPool>>
     \/ /\ ~wasmInitialized[w]
        /\ wasmInitialized' = [wasmInitialized EXCEPT ![w] = TRUE]
        /\ toPool' = [toPool EXCEPT ![w] = Append(@, [type |-> "WasmInitialized"])]
     \/ ~wasmInitialized[w] /\ UNCHANGED <<wasmInitialized, toPool>>
  /\ dispatched' = <<>>
  /\ UNCHANGED <<poolVars, workerActiveRequestId, validWords, timers,
                 registeredBy, historyVars>>
  /\ UNCHANGED <<pageVars, delivered, solverVars>>

\* case "ValidWordsRequest".
WorkerValidWordsRequest(w) ==
  /\ inbox[w] # <<>>
  /\ Head(inbox[w]).type = "ValidWordsRequest"
  /\ inbox' = [inbox EXCEPT ![w] = Tail(@)]
  /\ LET data == Head(inbox[w])
         words == getValidWords(data.text)
         payload == [type |-> "ValidWordsResponse",
                     requestId |-> data.requestId,
                     wordCount |-> words.wordCount,
                     serializedWords |-> words.serializedWords]
     IN IF ~wasmInitialized[w]
        THEN UNCHANGED <<workerActiveRequestId, toPool>>
        ELSE /\ workerActiveRequestId' =
                  [workerActiveRequestId EXCEPT ![w] = data.requestId]
             /\ toPool' = [toPool EXCEPT ![w] = Append(@, payload)]
  /\ dispatched' = <<>>
  /\ UNCHANGED <<poolVars, wasmInitialized, validWords, timers, registeredBy,
                 historyVars>>
  /\ UNCHANGED <<pageVars, delivered, solverVars>>

\* Mutant: one section too many takes an extra element.
sectionSizeOffByOne(h) == h.baseSize + (IF h.index <= h.extra THEN 1 ELSE 0)

\* const size = baseSize + (index < extra ? 1 : 0)
sectionSize(h) == h.baseSize + (IF h.index < h.extra THEN 1 ELSE 0)

\* Mutant: a resumed handler never notices a newer request.
abandonedNever(requestId, active) == FALSE

\* if (requestId !== activeRequestId) return;  -- after waitForTick
abandoned(requestId, active) == requestId # active

\* Mutant: every section's response is flagged final.
isFinalSectionAlways(h) == TRUE

\* isFinalResponse: index === sections - 1
isFinalSection(h) == h.index = h.sections - 1

\* One iteration of the sections loop up to `await waitForTick()`: search
\* [start, start + size), post the SolutionsResponse and suspend. `h` holds
\* the handler's locals with `start` and `index` already set.
RunSection(w, h, registered) ==
  LET end == h.start + sectionSize(h)
      found == wasmSolutions(registered, h.start, end)
      solutionsMessage == [type |-> "SolutionsResponse",
                           requestId |-> h.requestId,
                           solutions |-> found,
                           isFinalResponse |-> isFinalSection(h)]
      before == IF emitted[w].requestId = h.requestId
                THEN emitted[w] ELSE NothingEmitted
  IN /\ toPool' = [toPool EXCEPT ![w] = Append(@, solutionsMessage)]
     /\ emitted' =
          [emitted EXCEPT
             ![w] = [requestId |-> h.requestId,
                     count |-> before.count + 1,
                     finals |-> before.finals
                                  + (IF solutionsMessage.isFinalResponse
                                     THEN 1 ELSE 0)]]
     /\ searched' =
          IF h.requestId = poolActiveRequestId
          THEN [i \in WordIndexes |->
                  IF i \in h.start .. (end - 1)
                  THEN searched[i] + 1 ELSE searched[i]]
          ELSE searched
     /\ timers' = [timers EXCEPT
                     ![w] = Append(IF h.index = 0 THEN @ ELSE Tail(@),
                                   [h EXCEPT !.end = end])]

\* case "SolutionsRequest", up to the first `await`.
WorkerSolutionsRequest(w) ==
  /\ inbox[w] # <<>>
  /\ Head(inbox[w]).type = "SolutionsRequest"
  /\ inbox' = [inbox EXCEPT ![w] = Tail(@)]
  /\ LET data == Head(inbox[w])
         range == data.rangeEnd - data.rangeStart
         sections == Min(range, maxSections)
     IN IF ~wasmInitialized[w]
        THEN UNCHANGED <<workerActiveRequestId, validWords, timers, toPool,
                        emitted, searched, registeredBy>>
        ELSE
          /\ workerActiveRequestId' =
               [workerActiveRequestId EXCEPT ![w] = data.requestId]
          /\ IF ~Decodes(data.serializedWords)
             \* the panic leaves the handler as an exception
             THEN UNCHANGED <<validWords, timers, toPool, emitted, searched,
                              registeredBy>>
             ELSE
                /\ validWords' =
                     [validWords EXCEPT ![w] = registerValidWords(data.serializedWords)]
                /\ registeredBy' = [registeredBy EXCEPT ![w] = data.requestId]
                /\ IF range <= 0
                   THEN UNCHANGED <<timers, toPool, emitted, searched>>
                   ELSE RunSection(w, [requestId |-> data.requestId,
                                       rangeStart |-> data.rangeStart,
                                       rangeEnd |-> data.rangeEnd,
                                       sections |-> sections,
                                       baseSize |-> range \div sections,
                                       extra |-> range % sections,
                                       index |-> 0,
                                       start |-> data.rangeStart,
                                       end |-> data.rangeStart],
                                   validWords'[w])
  /\ dispatched' = <<>>
  /\ UNCHANGED <<poolVars, wasmInitialized, postedRanges, postedValidWords,
                 acceptedFinals, finalSnapshots>>
  /\ UNCHANGED <<pageVars, delivered, solverVars>>

\* The timer of waitForTick fires: the oldest suspended handler resumes with
\* the id check, then runs the next section or leaves the loop and clears the
\* registered words.
WorkerTick(w) ==
  /\ timers[w] # <<>>
  /\ LET h == Head(timers[w])
         next == [h EXCEPT !.start = h.end, !.index = h.index + 1]
     IN IF abandoned(h.requestId, workerActiveRequestId[w])
        THEN /\ timers' = [timers EXCEPT ![w] = Tail(@)]
             /\ UNCHANGED <<validWords, toPool, emitted, searched, registeredBy>>
        ELSE IF next.index < next.sections
        THEN /\ RunSection(w, next, validWords[w])
             /\ UNCHANGED <<validWords, registeredBy>>
        ELSE /\ timers' = [timers EXCEPT ![w] = Tail(@)]
             /\ validWords' = [validWords EXCEPT ![w] = Null]
             /\ registeredBy' = [registeredBy EXCEPT ![w] = Null]
             /\ UNCHANGED <<toPool, emitted, searched>>
  /\ dispatched' = <<>>
  /\ UNCHANGED <<poolVars, inbox, wasmInitialized, workerActiveRequestId,
                 postedRanges, postedValidWords, acceptedFinals,
                 finalSnapshots>>
  /\ UNCHANGED <<pageVars, delivered, solverVars>>

\* --------------------------------------------------------- the page
UpperLetters ==
  {"A", "B", "C", "D", "E", "F", "G", "H", "I", "J", "K", "L", "M",
   "N", "O", "P", "Q", "R", "S", "T", "U", "V", "W", "X", "Y", "Z"}

\* Mutant: the letters are not checked for duplicates.
isInputValidWithDuplicates(input) ==
  /\ Len(input) = InputCount
  /\ \A i \in 1 .. Len(input) : input[i] \in UpperLetters

\* LetrBoxdInput.isInputValid(): /^[A-Z]{12}$/ and twelve unique letters.
isInputValid(input) ==
  /\ Len(input) = InputCount
  /\ \A i \in 1 .. Len(input) : input[i] \in UpperLetters
  /\ Cardinality({input[i] : i \in 1 .. Len(input)}) = InputCount

\* Inputs that are not twelve distinct letters: one letter twice, and a side
\* of two letters.
Duplicate == [Board(0) EXCEPT ![InputCount] = "A"]
Short == SubSeq(Board(0), 1, InputCount - 1)
InvalidValues == {Blank, Duplicate, Short}
\* The values the user gives the input board.
Values == Inputs \cup InvalidValues

\* const totalSolutionCount: the sum of the five lists' lengths.
TotalCount(buckets) ==
  Len(buckets[1]) + Len(buckets[2]) + Len(buckets[3]) + Len(buckets[4])
    + Len(buckets[5])

\* A step of the page that calls nothing of the pool.
PoolUntouched ==
  /\ dispatched' = <<>>
  /\ UNCHANGED <<poolVars, inbox, toPool, workerVars, historyVars>>

\* clearSolutionLists(requestId)
clearSolutionLists(requestId) ==
  /\ noSolutionsCard' = "hidden"
  /\ solutionLists' = [requestId |-> requestId, solutions |-> EmptySolutions]

\* Mutant: a resumed handler never notices a newer InputChanged event.
supersededNever(requestId, active) == FALSE

\* if (requestId !== activeRequestId) return;  -- after each await of the
\* InputChanged listener and of maybeMatchInputToDate
superseded(requestId, active) == requestId # active

\* The InputChanged listener after `await maybeMatchInputToDate(...)`, with
\* the page's activeRequestId and the input's value as they are by then.
ResumeInputChanged(requestId, active, input) ==
  IF superseded(requestId, active)
  THEN /\ PoolUntouched
       /\ UNCHANGED <<solutionLists, noSolutionsCard>>
  ELSE IF ~isInputValid(input)
  THEN /\ clearSolutionLists(requestId)
       /\ PoolUntouched
  ELSE /\ sendSolutionsRequest(requestId, input)
       /\ UNCHANGED <<solutionLists, noSolutionsCard>>

nextRequestIdSame(active) == active

\* `++activeRequestId`: the id the listener gives its request.
nextRequestId(active) == active + 1

\* The input's value changes and it dispatches InputChanged. The listener
\* runs up to its await; with datesByInputPromise resolved the rest follows
\* as microtasks of the same task, with a rejected lookup it throws.
InputChanged(input) ==
  /\ activeRequestId < MaxRequestId
  /\ input # value \/ activeRequestId = 0
  /\ value' = input
  /\ activeRequestId' = nextRequestId(activeRequestId)
  /\ solutionsHeaderCount' = 0
  /\ UNCHANGED <<datesByInput, delivered, solverVars>>
  /\ IF datesByInput = "fetching"
     THEN /\ inputChangedHandlers' =
               Append(inputChangedHandlers, activeRequestId')
          /\ PoolUntouched
          /\ UNCHANGED <<solutionLists, noSolutionsCard>>
     ELSE IF datesByInput = "failed"
     THEN /\ PoolUntouched
          /\ UNCHANGED <<inputChangedHandlers, solutionLists, noSolutionsCard>>
     ELSE /\ ResumeInputChanged(activeRequestId', activeRequestId', input)
          /\ UNCHANGED inputChangedHandlers

\* The requests of the suspended listeners that are still the page's.
RECURSIVE LiveHandlers(_, _)
LiveHandlers(handlers, active) ==
  IF handlers = <<>> THEN <<>>
  ELSE IF ~superseded(Head(handlers), active)
       THEN <<Head(handlers)>> \o LiveHandlers(Tail(handlers), active)
       ELSE LiveHandlers(Tail(handlers), active)

\* datesByInputPromise resolves with the table: the suspended listeners
\* resume in order; all but the one of the active request return at once.
DatesByInputLoaded ==
  /\ datesByInput = "fetching"
  /\ datesByInput' = "loaded"
  /\ inputChangedHandlers' = <<>>
  /\ UNCHANGED <<activeRequestId, value, solutionsHeaderCount, delivered, solverVars>>
  /\ LET live == LiveHandlers(inputChangedHandlers, activeRequestId)
     IN IF live = <<>>
        THEN /\ PoolUntouched
             /\ UNCHANGED <<solutionLists, noSolutionsCard>>
        ELSE ResumeInputChanged(live[1], activeRequestId, value)

\* The fetch of datesByInput.json fails: the promise resolves with undefined
\* and the lookup of the active request's listener throws.
DatesByInputFails ==
  /\ datesByInput = "fetching"
  /\ datesByInput' = "failed"
  /\ inputChangedHandlers' = <<>>
  /\ PoolUntouched
  /\ UNCHANGED <<activeRequestId, value, solutionLists, solutionsHeaderCount,
                 noSolutionsCard, delivered, solverVars>>

\* Mutant: the listener shows the snapshot of any request.
SolutionsUpdatedListenerAnyRequest(event, buckets) ==
  LET totalSolutionCount == TotalCount(buckets)
  IN /\ solutionLists' = [requestId |-> event.requestId,
                          solutions |-> buckets]
     /\ solutionsHeaderCount' = totalSolutionCount
     /\ noSolutionsCard' =
          IF totalSolutionCount > 0 \/ event.isFinalResponse
          THEN (IF totalSolutionCount > 0 THEN "hidden" ELSE "visible")
          ELSE noSolutionsCard

\* The SolutionsUpdated listener; detail.solutions is `buckets`.
SolutionsUpdatedListener(event, buckets) ==
  IF event.requestId # activeRequestId
  THEN UNCHANGED <<solutionLists, solutionsHeaderCount, noSolutionsCard>>
  ELSE LET totalSolutionCount == TotalCount(buckets)
       IN /\ solutionLists' = [requestId |-> event.requestId,
                               solutions |-> buckets]
          /\ solutionsHeaderCount' = totalSolutionCount
          /\ noSolutionsCard' =
               IF totalSolutionCount > 0 \/ event.isFinalResponse
               THEN (IF totalSolutionCount > 0 THEN "hidden" ELSE "visible")
               ELSE noSolutionsCard

\* The SolutionsResponse task on the page: the event is dispatched
\* synchronously to the page's listener.
PageSolutionsResponse(w) ==
  /\ HandleSolutionsResponse(w)
  /\ IF dispatched' = <<>>
     THEN UNCHANGED <<solutionLists, solutionsHeaderCount, noSolutionsCard>>
     ELSE SolutionsUpdatedListener(dispatched'[1], solutions')
  /\ UNCHANGED <<activeRequestId, value, datesByInput, inputChangedHandlers,
                 delivered, solverVars>>

\* ------------------------------------------------------- the solver
\* The board "ABC" "DEF" "GHI" "JKL" and the words of a small dictionary.
full_mask == {Alphabet[i] : i \in 1 .. InputCount}
side_of(letter) ==
  ((CHOOSE i \in 1 .. InputCount : Alphabet[i] = letter) - 1) \div 3

Dictionary ==
  << <<"A", "D", "G", "J", "B", "E", "K", "C", "F", "I", "L", "H">>,
     <<"A", "D", "G", "J", "B", "E", "H">>,
     <<"H", "K", "C", "F", "I", "L">>,
     <<"H", "K", "C", "F", "I", "L", "A">>,
     <<"A", "D", "G">>,
     <<"G", "J", "B">>,
     <<"B", "E", "H">>,
     <<"H", "K", "C">>,
     <<"C", "F", "I", "L">> >>

\* The letter-presence set of a word.
to_mask(word) == {word[i] : i \in 1 .. Len(word)}
first(word) == word[1]
last(word) == word[Len(word)]

\* What the word filter lets through: three letters or more, all on the
\* board, no two consecutive letters on one side, no letter twice.
IsCandidateWord(word) ==
  /\ Len(word) >= 3
  /\ to_mask(word) \subseteq full_mask
  /\ \A i \in 1 .. (Len(word) - 1) : side_of(word[i]) # side_of(word[i + 1])
  /\ Cardinality(to_mask(word)) = Len(word)

\* The dictionary words numbered by `chosen`, in dictionary order.
RECURSIVE Chosen(_, _)
Chosen(chosen, n) ==
  IF n > Len(Dictionary) THEN <<>>
  ELSE IF n \in chosen /\ IsCandidateWord(Dictionary[n])
       THEN <<Dictionary[n]>> \o Chosen(chosen, n + 1)
       ELSE Chosen(chosen, n + 1)

\* The candidate lists a board's filter may produce, up to MaxCandidates words.
CandidateLists ==
  {Chosen(chosen, 1) :
     chosen \in {c \in SUBSET (1 .. Len(Dictionary)) :
                   Cardinality(c) <= MaxCandidates}}

\* W[j] of the zero-based candidate list.
WordAt(W, j) == W[j + 1]

\* by_first[L]: the indices of the words that start with L, in list order.
RECURSIVE by_first(_, _, _)
by_first(W, L, j) ==
  IF j >= Len(W) THEN <<>>
  ELSE IF first(WordAt(W, j)) = L
       THEN <<j>> \o by_first(W, L, j + 1)
       ELSE by_first(W, L, j + 1)

\* Mutant: only the first letter of the next word is tested.
overlapOfFirst(word, acc_mask) == {first(word)} \cap acc_mask

\* overlap = m(w') & acc_mask
overlap(word, acc_mask) == to_mask(word) \cap acc_mask

\* Mutant: any overlap that contains the join letter is let through.
acceptsWithJoin(word, acc_mask, need) == need \in overlap(word, acc_mask)

\* Reject unless overlap equals the single-bit mask for need.
accepts(word, acc_mask, need) == overlap(word, acc_mask) = {need}

\* The step at depth Len(path) and the loop over by_first[need]: the paths
\* emitted, in emission order.
RECURSIVE Step(_, _, _, _), Extend(_, _, _, _, _)
Step(W, path, acc_mask, need) ==
  LET emit == IF acc_mask = full_mask THEN <<path>> ELSE <<>>
  IN IF Len(path) = BucketCount THEN emit
     ELSE emit \o Extend(W, path, acc_mask, need, by_first(W, need, 0))

Extend(W, path, acc_mask, need, nextWords) ==
  IF nextWords = <<>> THEN <<>>
  ELSE LET j == Head(nextWords)
           word == WordAt(W, j)
       IN (IF accepts(word, acc_mask, need)
           THEN Step(W, Append(path, j), acc_mask \cup to_mask(word), last(word))
           ELSE <<>>)
            \o Extend(W, path, acc_mask, need, Tail(nextWords))

RECURSIVE depthZero(_, _, _), depthZeroInclusive(_, _, _)
\* Mutant: the first word at index range_end is searched too.
depthZeroInclusive(W, i, range_end) ==
  IF i > range_end \/ i >= Len(W) THEN <<>>
  ELSE Step(W, <<i>>, to_mask(WordAt(W, i)), last(WordAt(W, i)))
         \o depthZeroInclusive(W, i + 1, range_end)

\* Depth 0: iterate i over [range_start, range_end).
depthZero(W, i, range_end) ==
  IF i >= range_end THEN <<>>
  ELSE Step(W, <<i>>, to_mask(WordAt(W, i)), last(WordAt(W, i)))
         \o depthZero(W, i + 1, range_end)

\* solutions(range_start, range_end) against the registered list W: the
\* SolutionsPayload, the emitted paths grouped by their number of words.
SolutionsPayload(W, range_start, range_end) ==
  LET paths == depthZero(W, range_start, range_end)
  IN [b \in Buckets |-> SelectSeq(paths, LAMBDA path : Len(path) = b)]

\* A board's candidate list is registered and solutions(range_start,
\* range_end) is about to be called.
SolverInit ==
  /\ NewSolverPool(1)
  /\ candidates \in CandidateLists
  /\ \E range_start \in 0 .. Len(candidates) :
       \E range_end \in range_start .. Len(candidates) :
         solverRange = [range_start |-> range_start, range_end |-> range_end]
  /\ solutionsPayload = <<>>
  /\ NoLetterSequence
  /\ NoFilterCall
  /\ DefaultPage
  /\ NoElements

\* The call returns its payload.
CallSolutions ==
  /\ solutionsPayload = <<>>
  /\ solutionsPayload' =
       <<SolutionsPayload(candidates, solverRange.range_start,
                          solverRange.range_end)>>
  /\ dispatched' = <<>>
  /\ UNCHANGED <<poolVars, inbox, toPool, workerVars, historyVars, pageVars,
                 delivered, candidates, solverRange, letterVars, filterVars,
                 constructVars, elementVars>>

\* ------------------------------------------- WordFilter and Serializer
LowerLetters ==
  <<"a", "b", "c", "d", "e", "f", "g", "h", "i", "j", "k", "l", "m",
    "n", "o", "p", "q", "r", "s", "t", "u", "v", "w", "x", "y", "z">>

IsLetter(char) ==
  \E c \in 1 .. Len(Letters) : char = Letters[c] \/ char = LowerLetters[c]

\* Case folding: a lowercase letter is mapped to uppercase.
ToUpper(char) ==
  IF \E c \in 1 .. Len(Letters) : char = LowerLetters[c]
  THEN Letters[CHOOSE c \in 1 .. Len(Letters) : char = LowerLetters[c]]
  ELSE char

Fold(line) == [i \in 1 .. Len(line) |-> ToUpper(line[i])]

\* The lines a dictionary is made of: candidates of one board or both, and
\* lines that break one rule each.
DictionaryLines ==
  << <<"A", "D", "G">>,
     <<"A", "D", "E">>,
     <<"A", "D">>,
     <<"A", "D", "A">>,
     <<"A", "D", "M">>,
     <<"a", "d", "g">>,
     <<"A", "-", "G">>,
     <<"H", "K", "C", "F", "I", "L">>,
     <<"A", "D", "G", "J", "B", "E", "K", "C", "F", "I", "L", "H">>,
     <<"A", "D", "G", "J", "B", "E", "K", "C", "F", "I", "L", "H", "A">>,
     <<>> >>

\* The dictionary lines numbered by `chosen`, in order.
RECURSIVE ChosenLines(_, _)
ChosenLines(chosen, n) ==
  IF n > Len(DictionaryLines) THEN <<>>
  ELSE IF n \in chosen
       THEN <<DictionaryLines[n]>> \o ChosenLines(chosen, n + 1)
       ELSE ChosenLines(chosen, n + 1)

Dictionaries ==
  {ChosenLines(chosen, 1) :
     chosen \in {c \in SUBSET (1 .. Len(DictionaryLines)) :
                   Cardinality(c) <= MaxDictionary}}

\* PuzzleBoard: the side of a board letter, and full_mask.
BoardSide(board, letter) ==
  ((CHOOSE i \in 1 .. Len(board) : board[i] = letter) - 1) \div 3
BoardMask(board) == {board[i] : i \in 1 .. Len(board)}

\* Mutant: no two letters are ever on one side.
same_side_never(board, a, b) == FALSE

same_side(board, a, b) == BoardSide(board, a) = BoardSide(board, b)

\* The letter-presence mask of a LetterSequence.
SequenceMask(s) == {at(s, i) : i \in 0 .. (len(s) - 1)}

\* The four filter rules on a LetterSequence.
PassesFilter(board, s) ==
  /\ len(s) >= 3
  /\ SequenceMask(s) \subseteq BoardMask(board)
  /\ \A i \in 0 .. (len(s) - 2) : ~same_side(board, at(s, i), at(s, i + 1))
  /\ Cardinality(SequenceMask(s)) = len(s)

\* The order of two u64 values.
LessThan(s, t) ==
  \E k \in 1 .. WordBits :
    /\ s[k] < t[k]
    /\ \A j \in (k + 1) .. WordBits : s[j] = t[j]

\* Insert into a list sorted by value, dropping a duplicate.
RECURSIVE InsertSorted(_, _)
InsertSorted(list, s) ==
  IF list = <<>> THEN <<s>>
  ELSE IF Head(list) = s THEN list
  ELSE IF LessThan(s, Head(list)) THEN <<s>> \o list
  ELSE <<Head(list)>> \o InsertSorted(Tail(list), s)

\* WordFilter: lines that are no words are skipped, the others are folded,
\* tested, deduplicated and sorted by their u64 value.
RECURSIVE WordFilter(_, _)
WordFilter(board, lines) ==
  IF lines = <<>> THEN <<>>
  ELSE LET rest == WordFilter(board, Tail(lines))
           line == Head(lines)
           s == from_ascii(Fold(line))
       IN IF line = <<>> \/ \E i \in 1 .. Len(line) : ~IsLetter(line[i])
          THEN rest
          ELSE IF IsError(s) THEN rest
          ELSE IF PassesFilter(board, s) THEN InsertSorted(rest, s)
          ELSE rest

\* A number as `count` little-endian bytes.
LittleEndian(number, count) ==
  [j \in 1 .. count |->
     IF j = 1 THEN number % 256
     ELSE IF j = 2 THEN (number \div 256) % 256
     ELSE IF j = 3 THEN (number \div 65536) % 256
     ELSE (number \div 16777216) % 256]

ByteOf(s, j) ==
  LET low == 8 * (j - 1)
  IN s[low + 1] + 2 * s[low + 2] + 4 * s[low + 3] + 8 * s[low + 4]
       + 16 * s[low + 5] + 32 * s[low + 6] + 64 * s[low + 7]
       + 128 * s[low + 8]

\* Mutant: the u64 is written most significant byte first.
BigEndian64(s) == [j \in 1 .. 8 |-> ByteOf(s, 9 - j)]

\* A u64 as eight little-endian bytes.
LittleEndian64(s) == [j \in 1 .. 8 |-> ByteOf(s, j)]

RECURSIVE EncodeAll(_)
EncodeAll(list) ==
  IF list = <<>> THEN <<>>
  ELSE LittleEndian64(Head(list)) \o EncodeAll(Tail(list))

\* encode: a four-byte little-endian count, then eight bytes per word.
encode(list) == LittleEndian(Len(list), 4) \o EncodeAll(list)

\* Eight little-endian bytes as a u64.
FromLittleEndian64(bytes) ==
  [k \in 1 .. WordBits |-> BitOf(bytes[((k - 1) \div 8) + 1], (k - 1) % 8)]

\* The sentinel invariant: the length-tracker bit sits on a letter boundary
\* within the capacity and every slot below it holds a letter code.
IsLetterSequence(s) ==
  /\ \E k \in 1 .. WordBits : s[k] = 1
  /\ TrackerBit(s) % LetterBits = 0
  /\ len(s) <= Capacity
  /\ \A i \in 0 .. (len(s) - 1) :
       FiveBits(s, LetterBits * i) < Len(Letters)

MalformedList == [malformed |-> TRUE, list |-> <<>>]

\* decode: Malformed for a truncated input, an oversized count or a value
\* that is no LetterSequence; else the list.
decode(bytes) ==
  IF Len(bytes) < 4 THEN MalformedList
  ELSE IF bytes[3] # 0 \/ bytes[4] # 0 THEN MalformedList
  ELSE LET count == bytes[1] + 256 * bytes[2]
       IN IF Len(bytes) # 4 + 8 * count THEN MalformedList
          ELSE LET list == [n \in 1 .. count |->
                              FromLittleEndian64(
                                SubSeq(bytes, 8 * n - 3, 8 * n + 4))]
               IN IF \E n \in 1 .. count : ~IsLetterSequence(list[n])
                  THEN MalformedList
                  ELSE [malformed |-> FALSE, list |-> list]

\* Nothing filtered, nothing registered.
NoValidWords ==
  /\ candidateWords = <<>>
  /\ encodedWords = <<>>
  /\ decodedWords = <<>>

\* A board and a dictionary, before getValidWords is called.
FilterInit ==
  /\ NewSolverPool(1)
  /\ candidates = <<>>
  /\ solverRange = [range_start |-> 0, range_end |-> 0]
  /\ solutionsPayload = <<>>
  /\ NoLetterSequence
  /\ DefaultPage
  /\ NoElements
  /\ puzzleBoard \in {Board(0), Board(1)}
  /\ dictionaryWords \in Dictionaries
  /\ NoValidWords

\* getValidWords(input): the board's candidate words, serialized.
GetValidWords ==
  /\ encodedWords = <<>>
  /\ candidateWords' = WordFilter(puzzleBoard, dictionaryWords)
  /\ encodedWords' = encode(candidateWords')
  /\ dispatched' = <<>>
  /\ UNCHANGED <<poolVars, inbox, toPool, workerVars, historyVars, pageVars,
                 delivered, candidates, solverRange, solutionsPayload,
                 letterVars, puzzleBoard, dictionaryWords, decodedWords,
                 constructVars, elementVars>>

\* registerValidWords(serialized_words): the list is decoded and stored.
RegisterValidWords ==
  /\ encodedWords # <<>>
  /\ decodedWords = <<>>
  /\ ~decode(encodedWords).malformed
  /\ decodedWords' = <<decode(encodedWords).list>>
  /\ dispatched' = <<>>
  /\ UNCHANGED <<poolVars, inbox, toPool, workerVars, historyVars, pageVars,
                 delivered, candidates, solverRange, solutionsPayload,
                 letterVars, puzzleBoard, dictionaryWords, candidateWords,
                 encodedWords,
                 constructVars, elementVars>>

\* ------------------------------------------------ the LetrBoxdInput
\* The indexes of the twelve cells, as the source counts them.
InputIndexes == 0 .. (InputCount - 1)

\* get value(): `${this.top}${this.right}${this.bottom}${this.left}`
inputValue(input) == input.top \o input.right \o input.bottom \o input.left

\* /[^A-Z_]/ does not match the character.
IsSanitary(char) == char \in UpperLetters \/ char = "_"

\* String.prototype.padEnd(length, "_")
padEnd(string, length) ==
  IF Len(string) >= length
  THEN string
  ELSE string \o [i \in 1 .. (length - Len(string)) |-> "_"]

\* static #sanitizeLetters(value, length), of a string: uppercase, drop what
\* is neither a letter nor an underscore, cut and pad to the length.
sanitizeLetters(string, length) ==
  LET kept == SelectSeq(Fold(string), IsSanitary)
  IN padEnd(SubSeq(kept, 1, Min(length, Len(kept))), length)

\* #getSideValueByIndex(index)
getSideValueByIndex(input, index) ==
  IF index >= 0 /\ index <= 2 THEN input.top
  ELSE IF index >= 3 /\ index <= 5 THEN input.right
  ELSE IF index >= 6 /\ index <= 8 THEN input.bottom
  ELSE input.left

\* What #setSideValueByIndex(index, value) returns: the side differs from
\* the sanitized value.
sideChanged(input, index, string) ==
  getSideValueByIndex(input, index) # sanitizeLetters(string, 3)

\* #setSideValueByIndex(index, value): the side is assigned `value`, the
\* argument as given.
setSideValueByIndex(input, index, string) ==
  IF ~sideChanged(input, index, string) THEN input
  ELSE IF index >= 0 /\ index <= 2 THEN [input EXCEPT !.top = string]
  ELSE IF index >= 3 /\ index <= 5 THEN [input EXCEPT !.right = string]
  ELSE IF index >= 6 /\ index <= 8 THEN [input EXCEPT !.bottom = string]
  ELSE [input EXCEPT !.left = string]

\* #setInputValue(index, value)
setInputValue(input, index, text) ==
  [input EXCEPT !.inputElements[index + 1] = text]

\* #updateInputElementsFromValue(): cell by cell from val[index]; a cell
\* past the end of the value is given undefined, which empties it.
updateInputElementsFromValue(input) ==
  LET val == inputValue(input)
  IN [input EXCEPT !.inputElements =
        [i \in 1 .. InputCount |-> IF i <= Len(val) THEN val[i] ELSE ""]]

\* #maybeDispatchInputChangedEvent()
maybeDispatchInputChangedEvent(input) ==
  IF inputValue(input) = input.previousValue
  THEN input
  ELSE [input EXCEPT !.previousValue = inputValue(input),
                     !.inputChanged = TRUE]

\* set top(value), set right(value), set bottom(value), set left(value):
\* the four setters differ in the index they pass, 0, 3, 6 and 9.
setSide(input, index, string) ==
  IF sideChanged(input, index, string)
  THEN maybeDispatchInputChangedEvent(
         updateInputElementsFromValue(
           setSideValueByIndex(input, index, string)))
  ELSE input

\* set value(value)
setValue(input, string) ==
  LET sanitizedValue == sanitizeLetters(string, InputCount)
  IN IF inputValue(input) = sanitizedValue
     THEN input
     ELSE maybeDispatchInputChangedEvent(
            updateInputElementsFromValue(
              [input EXCEPT !.top = SubSeq(sanitizedValue, 1, 3),
                            !.right = SubSeq(sanitizedValue, 4, 6),
                            !.bottom = SubSeq(sanitizedValue, 7, 9),
                            !.left = SubSeq(sanitizedValue, 10, 12)]))

\* clear(): this.value = "____________"
clear(input) == setValue(input, Blank)

\* #updateLetterAtIndex(index, letter): chars[index % 3] = letter on the
\* split side; joining an array with holes skips the holes.
updateLetterAtIndex(input, index, letter) ==
  LET shown == setInputValue(input, index, letter)
      sideValue == getSideValueByIndex(shown, index)
      chars == IF index % 3 < Len(sideValue)
               THEN [sideValue EXCEPT ![(index % 3) + 1] = letter]
               ELSE sideValue \o <<letter>>
  IN setSideValueByIndex(shown, index, chars)

\* The loop of #resetDuplicateLetters(letter, currentIndex), from index on.
RECURSIVE resetDuplicateLettersFrom(_, _, _, _)
resetDuplicateLettersFrom(input, letter, currentIndex, index) ==
  IF index >= InputCount
  THEN input
  ELSE resetDuplicateLettersFrom(
         IF index # currentIndex /\ input.inputElements[index + 1] = letter
         THEN updateLetterAtIndex(input, index, "_")
         ELSE input,
         letter, currentIndex, index + 1)

\* #resetDuplicateLetters(letter, currentIndex)
resetDuplicateLetters(input, letter, currentIndex) ==
  resetDuplicateLettersFrom(input, letter, currentIndex, 0)

\* #handleLetterInput(event, index)
handleLetterInput(input, key, index) ==
  LET letter == ToUpper(key)
  IN maybeDispatchInputChangedEvent(
       resetDuplicateLetters(updateLetterAtIndex(input, index, letter),
                             letter, index))

\* #removeLetter(index)
removeLetter(input, index) ==
  maybeDispatchInputChangedEvent(updateLetterAtIndex(input, index, "_"))

\* The keydown listener of the cell at index: Backspace and Delete remove,
\* a single ASCII letter is entered, any other key changes nothing.
keydown(input, key, index) ==
  IF key \in {"Backspace", "Delete"} THEN removeLetter(input, index)
  ELSE IF IsLetter(key) THEN handleLetterInput(input, key, index)
  ELSE input

\* The strings a caller assigns to a side: a lowercase one and one too long.
SideStrings == {<<"a", "b", "c">>, <<"A", "B", "C", "D">>}
\* The strings a caller assigns to the value: a board, and a short lowercase
\* string with a digit.
ValueStrings == {Board(0), <<"j", "1", "k">>}
\* The keys pressed, and the cells they are pressed in.
Keys == {"a", "Backspace", "1"}
KeyIndexes == {0, 11}

InputFrame ==
  /\ dispatched' = <<>>
  /\ UNCHANGED <<poolVars, inbox, toPool, workerVars, historyVars, pageVars,
                 delivered, candidates, solverRange, solutionsPayload,
                 letterVars, filterVars, constructVars, sortVars, listVars>>

\* The event of the step before is gone when the next operation starts.
Quiet(input) == [input EXCEPT !.inputChanged = FALSE]

\* input.top = string
SetTop(string) ==
  /\ letrBoxdInput' = setSide(Quiet(letrBoxdInput), 0, string)
  /\ InputFrame

\* input.right = string
SetRight(string) ==
  /\ letrBoxdInput' = setSide(Quiet(letrBoxdInput), 3, string)
  /\ InputFrame

\* input.bottom = string
SetBottom(string) ==
  /\ letrBoxdInput' = setSide(Quiet(letrBoxdInput), 6, string)
  /\ InputFrame

\* input.left = string
SetLeft(string) ==
  /\ letrBoxdInput' = setSide(Quiet(letrBoxdInput), 9, string)
  /\ InputFrame

\* input.value = string
SetValue(string) ==
  /\ letrBoxdInput' = setValue(Quiet(letrBoxdInput), string)
  /\ InputFrame

\* input.clear()
Clear ==
  /\ letrBoxdInput' = clear(Quiet(letrBoxdInput))
  /\ InputFrame

\* The user presses a key in the cell at index.
Keydown(key, index) ==
  /\ letrBoxdInput' = keydown(Quiet(letrBoxdInput), key, index)
  /\ InputFrame

\* ------------------------------------------------ the sorter worker
\* A solution is a string: its characters in order, words separated by " ".
Space == " "

\* String.prototype.split(" ")
RECURSIVE split(_)
split(text) ==
  IF \A i \in 1 .. Len(text) : text[i] # Space THEN <<text>>
  ELSE LET i == CHOOSE n \in 1 .. Len(text) :
                  /\ text[n] = Space
                  /\ \A m \in 1 .. (n - 1) : text[m] # Space
       IN <<SubSeq(text, 1, i - 1)>> \o split(SubSeq(text, i + 1, Len(text)))

\* lhsWord.localeCompare(rhsWord) on words of A-Z, in a locale that keeps
\* the order of the alphabet: negative, zero or positive.
RECURSIVE localeCompare(_, _)
localeCompare(lhsWord, rhsWord) ==
  IF lhsWord = <<>> THEN (IF rhsWord = <<>> THEN 0 ELSE -1)
  ELSE IF rhsWord = <<>> THEN 1
  ELSE IF LetterCode(Head(lhsWord)) < LetterCode(Head(rhsWord)) THEN -1
  ELSE IF LetterCode(Head(lhsWord)) > LetterCode(Head(rhsWord)) THEN 1
  ELSE localeCompare(Tail(lhsWord), Tail(rhsWord))

\* Mutant: the lengths of the words are not compared.
lengthDiffNone(lhsWord, rhsWord) == 0

\* const lengthDiff = lhsWord.length - rhsWord.length
lengthDiff(lhsWord, rhsWord) == Len(lhsWord) - Len(rhsWord)

\* The comparator's loop from `index` on; wordCount is lhsWords.length.
RECURSIVE compareFrom(_, _, _)
compareFrom(lhsWords, rhsWords, index) ==
  IF index > Len(lhsWords) THEN 0
  ELSE LET lhsWord == lhsWords[index]
           rhsWord == rhsWords[index]
       IN IF lengthDiff(lhsWord, rhsWord) # 0
          THEN lengthDiff(lhsWord, rhsWord)
          ELSE IF localeCompare(lhsWord, rhsWord) # 0
          THEN localeCompare(lhsWord, rhsWord)
          ELSE compareFrom(lhsWords, rhsWords, index + 1)

\* The comparator handed to solutionsWithWords.sort.
compare(lhs, rhs) == compareFrom(lhs.words, rhs.words, 1)

\* Array.prototype.sort is stable: an item goes behind the items that do
\* not compare greater than it.
RECURSIVE insert(_, _)
insert(sorted, item) ==
  IF sorted = <<>> THEN <<item>>
  ELSE IF compare(Head(sorted), item) > 0 THEN <<item>> \o sorted
  ELSE <<Head(sorted)>> \o insert(Tail(sorted), item)

RECURSIVE sort(_)
sort(items) ==
  IF items = <<>> THEN <<>>
  ELSE insert(sort(SubSeq(items, 1, Len(items) - 1)), items[Len(items)])

\* sortSolutions(solutions)
sortSolutions(solutionStrings) ==
  LET solutionsWithWords ==
        [n \in 1 .. Len(solutionStrings) |->
           [solution |-> solutionStrings[n],
            words |-> split(solutionStrings[n])]]
      sorted == sort(solutionsWithWords)
  IN [n \in 1 .. Len(sorted) |-> sorted[n].solution]

\* The words of the solutions handed to the sorter, and two-word solutions
\* made of them: first words and second words that differ in length, and in
\* the alphabet at one length. A list holds solutions of one word count.
SortedWords ==
  {<< <<"B">>, <<"A", "C">> >>, << <<"B">>, <<"B">> >>,
   << <<"A", "B">>, <<"B">> >>, << <<"A", "B">>, <<"A", "B">> >>,
   << <<"A", "C">>, <<"A", "B">> >>}
SortedSolutions == {words[1] \o <<Space>> \o words[2] : words \in SortedWords}
RECURSIVE ListsOf(_, _)
ListsOf(items, length) ==
  IF length = 0 THEN {<<>>}
  ELSE {Append(list, item) : list \in ListsOf(items, length - 1), item \in items}
SolutionArrays == UNION {ListsOf(SortedSolutions, n) : n \in 0 .. MaxSorted}

\* A SolutionList posts a SortedSolutionsRequest to the sorter worker.
PostSortRequest(solutionStrings, requestId) ==
  /\ sortRequest = <<>>
  /\ sortRequest' = <<[type |-> "SortedSolutionsRequest",
                       requestId |-> requestId,
                       solutions |-> solutionStrings]>>
  /\ sortResponse' = <<>>
  /\ dispatched' = <<>>
  /\ UNCHANGED <<poolVars, inbox, toPool, workerVars, historyVars, pageVars,
                 delivered, candidates, solverRange, solutionsPayload,
                 letterVars, filterVars, constructVars, listVars, inputVars>>

\* The sorter worker's onmessage.
SorterOnMessage ==
  /\ sortRequest # <<>>
  /\ sortRequest' = <<>>
  /\ sortResponse' = <<[type |-> "SortedSolutionsResponse",
                        requestId |-> sortRequest[1].requestId,
                        sortedSolutions |-> sortSolutions(sortRequest[1].solutions)]>>
  /\ dispatched' = <<>>
  /\ UNCHANGED <<poolVars, inbox, toPool, workerVars, historyVars, pageVars,
                 delivered, candidates, solverRange, solutionsPayload,
                 letterVars, filterVars, constructVars, listVars, inputVars>>

\* ------------------------------------------------- message dispatch
\* The type tags of types/message-data, and two that are none of them.
MessageTypes ==
  {"InitializeWasmRequest", "WasmInitialized", "ValidWordsRequest",
   "ValidWordsResponse", "SolutionsRequest", "SolutionsResponse",
   "SortedSolutionsRequest", "SortedSolutionsResponse"}
UnknownTypes == {"Ping", ""}

\* A message without a `solutions` field.
NoField == <<"undefined">>
\* The messages a receiver may be handed: a tag, a request id and, possibly,
\* a list of solutions.
Messages ==
  [type : MessageTypes \cup UnknownTypes,
   requestId : 0 .. MaxRequestId,
   solutions : {NoField, <<>>, <<"b c", "a d">>}]

\* SolverPool.#handleWorkerMessage: switch (type) with a throwing default.
PoolDispatch(data) ==
  IF data.type \in {"WasmInitialized", "ValidWordsResponse",
                    "SolutionsResponse"}
  THEN "handled" ELSE "throws"

\* The solver worker's onmessage: switch (type) with a throwing default.
SolverDispatch(data) ==
  IF data.type \in {"InitializeWasmRequest", "ValidWordsRequest",
                    "SolutionsRequest"}
  THEN "handled" ELSE "throws"

\* The sorter worker's onmessage: no switch; whatever carries a `solutions`
\* array is sorted and answered, anything else fails in sortSolutions.
SorterDispatch(data) ==
  IF data.solutions = NoField THEN "throws" ELSE "handled"

\* SolutionList.#handleWorkerMessage: switch (type) with a throwing default.
ListDispatch(data) ==
  IF data.type = "SortedSolutionsResponse" THEN "handled" ELSE "throws"

Receivers == {"pool", "solver", "sorter", "list"}

Dispatch(receiver, data) ==
  IF receiver = "pool" THEN PoolDispatch(data)
  ELSE IF receiver = "solver" THEN SolverDispatch(data)
  ELSE IF receiver = "sorter" THEN SorterDispatch(data)
  ELSE ListDispatch(data)

\* A receiver's message handler is handed `data`.
Receive(receiver, data) ==
  /\ delivered' = <<[receiver |-> receiver, data |-> data,
                     outcome |-> Dispatch(receiver, data)]>>
  /\ dispatched' = <<>>
  /\ UNCHANGED <<poolVars, inbox, toPool, workerVars, historyVars, pageVars,
                 solverVars>>

\* ------------------------------------------------------ specification
\* Everything but the page's calls: the tasks of the main thread's and the
\* workers' event loops.
MessageLoops ==
  \/ BroadcastWasmBinary
  \/ BroadcastWasmBinaryFails
  \/ \E w \in Workers : PoolWasmInitialized(w)
  \/ \E w \in Workers : PoolValidWordsResponse(w)
  \/ \E w \in Workers : PoolSolutionsResponse(w)
  \/ \E w \in Workers : WorkerInitializeWasm(w)
  \/ \E w \in Workers : WorkerValidWordsRequest(w)
  \/ \E w \in Workers : WorkerSolutionsRequest(w)
  \/ \E w \in Workers : WorkerTick(w)

\* The pool under a caller whose request ids strictly increase.
Next ==
  \/ \E requestId \in RequestIds, input \in Inputs :
       /\ requestId > poolActiveRequestId
       /\ sendSolutionsRequest(requestId, input)
       /\ UNCHANGED <<pageVars, delivered, solverVars>>
  \/ MessageLoops

Spec == Init /\ [][Next]_vars

\* The pool of a single worker, on boards with longer candidate lists.
SingleNext ==
  \/ \E requestId \in RequestIds, input \in LargeInputs :
       /\ requestId > poolActiveRequestId
       /\ sendSolutionsRequest(requestId, input)
       /\ UNCHANGED <<pageVars, delivered, solverVars>>
  \/ MessageLoops

SingleSpec == SingleInit /\ [][SingleNext]_vars

\* The page with its pool: the request ids are the page's.
PageNext ==
  \/ \E input \in Values : InputChanged(input)
  \/ DatesByInputLoaded
  \/ DatesByInputFails
  \/ BroadcastWasmBinary
  \/ BroadcastWasmBinaryFails
  \/ \E w \in Workers : PoolWasmInitialized(w)
  \/ \E w \in Workers : PoolValidWordsResponse(w)
  \/ \E w \in Workers : PageSolutionsResponse(w)
  \/ \E w \in Workers : WorkerInitializeWasm(w)
  \/ \E w \in Workers : WorkerValidWordsRequest(w)
  \/ \E w \in Workers : WorkerSolutionsRequest(w)
  \/ \E w \in Workers : WorkerTick(w)

PageSpec == Init /\ [][PageNext]_vars

\* The fault of a candidate list that arrives undecodable: the bytes of the
\* SolutionsRequest a worker is about to handle are no serialized list.
CorruptSerializedWords(w) ==
  /\ inbox[w] # <<>>
  /\ Head(inbox[w]).type = "SolutionsRequest"
  /\ Head(inbox[w]).serializedWords # Malformed
  /\ inbox' = [inbox EXCEPT ![w][1].serializedWords = Malformed]
  /\ dispatched' = <<>>
  /\ UNCHANGED <<poolVars, toPool, workerVars, historyVars, pageVars,
                 delivered, solverVars>>

\* The pool of a single worker under that fault.
FaultNext ==
  \/ \E requestId \in RequestIds, input \in Inputs :
       /\ requestId > poolActiveRequestId
       /\ sendSolutionsRequest(requestId, input)
       /\ UNCHANGED <<pageVars, delivered, solverVars>>
  \/ MessageLoops
  \/ \E w \in Workers : CorruptSerializedWords(w)

FaultSpec == SingleInit /\ [][FaultNext]_vars

\* Each receiver's dispatch on every message.
DispatchNext == \E receiver \in Receivers, data \in Messages : Receive(receiver, data)

DispatchSpec == SingleInit /\ [][DispatchNext]_vars

\* The solver on every candidate list and range.
SolverNext == CallSolutions

SolverSpec == SolverInit /\ [][SolverNext]_vars

\* A LetterSequence under push.
LetterNext == \E letter \in PushedLetters : PushLetter(letter)

LetterSpec == SingleInit /\ [][LetterNext]_vars

\* A dictionary is filtered for a board, serialized and registered.
FilterNext == GetValidWords \/ RegisterValidWords

FilterSpec == FilterInit /\ [][FilterNext]_vars

\* The page's `new SolverPool(maybeGetSolverCountFromUrl())`.
ConstructInit ==
  /\ solversParameter \in SolversParameters
  /\ hardwareConcurrency \in HardwareConcurrencies
  /\ NewSolverPool(WorkerCount(solversParameter, hardwareConcurrency))
  /\ NoWasmCall
  /\ NoElements

\* The main thread of a pool of any size: the WASM fetch and the requests.
ConstructNext ==
  \/ BroadcastWasmBinary
  \/ BroadcastWasmBinaryFails
  \/ \E requestId \in RequestIds, input \in Inputs :
       /\ requestId > poolActiveRequestId
       /\ sendSolutionsRequest(requestId, input)
       /\ UNCHANGED <<pageVars, delivered, solverVars>>

ConstructSpec == ConstructInit /\ [][ConstructNext]_vars

\* The sorter worker is handed lists of solutions, one after another.
SortNext ==
  \/ \E solutionStrings \in SolutionArrays, requestId \in RequestIds :
       PostSortRequest(solutionStrings, requestId)
  \/ SorterOnMessage

SortSpec == SingleInit /\ [][SortNext]_vars

\* One SolutionList with its sorter worker, the page and the user.
ListNext ==
  \/ \E count \in SolutionCounts, requestId \in RequestIds,
        isFinalResponse \in BOOLEAN :
       SetSolutions(count, requestId, isFinalResponse)
  \/ HeaderClick
  \/ IdleCallback
  \/ SorterWorker
  \/ HandleWorkerMessage
  \/ DoneTimer
  \/ Scroll

ListSpec == SingleInit /\ [][ListNext]_vars

\* One LetrBoxdInput, its callers and the user at the keyboard.
InputNext ==
  \/ \E string \in SideStrings : SetTop(string)
  \/ \E string \in SideStrings : SetRight(string)
  \/ \E string \in SideStrings : SetBottom(string)
  \/ \E string \in SideStrings : SetLeft(string)
  \/ \E string \in ValueStrings : SetValue(string)
  \/ Clear
  \/ \E key \in Keys, index \in KeyIndexes : Keydown(key, index)

InputSpec == SingleInit /\ [][InputNext]_vars


\* ------------------------------------------------------------ claims
Snapshot == dispatched[1]

\* All solutions of a bucket list, whatever the bucket.
AllSolutions(buckets) ==
  UNION {{buckets[b][n] : n \in 1 .. Len(buckets[b])} : b \in Buckets}

\* Requests the pool was given before the active one.
SupersededRequests == {r \in RequestIds : r < poolActiveRequestId}

InFlight(w) == {toPool[w][n] : n \in 1 .. Len(toPool[w])}

\* C1: a snapshot dispatched after request r1 was superseded contains no
\* solution that arrived in a SolutionsResponse tagged r1: every solution of
\* every dispatched snapshot arrived under the pool's active request id.
C1_AggregatorIsolation ==
  dispatched # <<>> =>
    \A sol \in AllSolutions(solutions) :
      /\ sol.requestId \notin SupersededRequests
      /\ sol.requestId = poolActiveRequestId

\* A snapshot of request 2 with solutions is dispatched while a
\* SolutionsResponse of the superseded request 1 is still in flight.
C1_Witness ==
  /\ dispatched # <<>>
  /\ Snapshot.requestId = 2
  /\ AllSolutions(solutions) # {}
  /\ \E w \in Workers : \E m \in InFlight(w) :
       /\ m.type = "SolutionsResponse"
       /\ m.requestId = 1
       /\ AllSolutions(m.solutions) # {}

RECURSIVE SumOver(_, _)
SumOver(f, S) ==
  IF S = {} THEN 0
  ELSE LET x == CHOOSE y \in S : TRUE IN f[x] + SumOver(f, S \ {x})

Quiescent ==
  \A w \in Workers :
    /\ inbox[w] = <<>>
    /\ toPool[w] = <<>>
    /\ timers[w] = <<>>
    /\ readyCallbacks[w] = <<>>

AllWorkersInitialised == \A w \in Workers : workerReady[w]

\* C3: with all workers initialised, a request that is not superseded gets a
\* final snapshot: once all its work has drained, a SolutionsUpdated with
\* isFinalResponse = true has been dispatched for it, whatever the candidate
\* count (0 and counts below the worker count included).
C3_FinalSnapshotDispatched ==
  (poolActiveRequestId # Null /\ AllWorkersInitialised /\ Quiescent)
    => finalSnapshots >= 1

\* Worker w takes the SolutionsRequest at the head of its inbox.
HandlesSolutionsRequest(w) ==
  /\ inbox[w] # <<>>
  /\ Head(inbox[w]).type = "SolutionsRequest"
  /\ inbox'[w] = Tail(inbox[w])

\* C4: an initialised worker handling a SolutionsRequest with an empty range
\* posts exactly one SolutionsResponse for that request id, final and with
\* all five lists empty.
C4_EmptyRangeAcknowledged ==
  [][\A w \in Workers :
       (/\ HandlesSolutionsRequest(w)
        /\ wasmInitialized[w]
        /\ Head(inbox[w]).rangeStart = Head(inbox[w]).rangeEnd)
       => toPool'[w] = Append(toPool[w],
                              [type |-> "SolutionsResponse",
                               requestId |-> Head(inbox[w]).requestId,
                               solutions |-> EmptySolutions,
                               isFinalResponse |-> TRUE])]_vars

\* The half-open index range [start, end) as a set.
Range(start, end) == start .. (end - 1)

\* Workers that were posted a SolutionsRequest of the active request.
PostedWorkers ==
  {w \in Workers : /\ postedRanges[w] # <<>>
                   /\ postedRanges[w][1].requestId = poolActiveRequestId}

PostedRange(w) ==
  Range(postedRanges[w][1].rangeStart, postedRanges[w][1].rangeEnd)

\* C5: for an accepted ValidWordsResponse with wordCount n and k workers, the
\* ranges of the SolutionsRequests posted so far are half-open within [0, n)
\* and pairwise disjoint, worker i's has floor(n/k) elements plus one if
\* i < n mod k, and once all k are posted they cover exactly [0, n) -- in
\* whatever order the workers' ready callbacks ran.
C5_RangesPartitionCandidates ==
  (rangeClosure # <<>>) =>
    LET n == rangeClosure[1].wordCount
        k == solverCount
    IN /\ \A w \in PostedWorkers :
            /\ 0 <= postedRanges[w][1].rangeStart
            /\ postedRanges[w][1].rangeStart <= postedRanges[w][1].rangeEnd
            /\ postedRanges[w][1].rangeEnd <= n
            /\ Cardinality(PostedRange(w))
                 = (n \div k) + (IF w < n % k THEN 1 ELSE 0)
       /\ \A v, w \in PostedWorkers :
            v # w => PostedRange(v) \cap PostedRange(w) = {}
       /\ PostedWorkers = Workers
            => UNION {PostedRange(w) : w \in Workers} = Range(0, n)

\* Both workers of a pool were posted their ranges of 2 candidates, and
\* worker 1's callback ran before worker 0's.
C5_Witness ==
  /\ solverCount = 2
  /\ rangeClosure # <<>>
  /\ rangeClosure[1].wordCount = 2
  /\ PostedWorkers = Workers
  /\ postedRanges[1][1].rangeStart = 0
  /\ postedRanges[0][1].rangeStart > 0

\* Worker w resumes the handler at the head of its timers.
Resumes(w) ==
  /\ timers[w] # <<>>
  /\ timers'[w] # timers[w]
  /\ inbox'[w] = inbox[w]

\* Worker w calls the solver in this step, and the locals of the handler
\* that made the call, as it suspends after it.
Calls(w) == emitted'[w] # emitted[w]
Call(w) == timers'[w][Len(timers'[w])]

\* Worker w resumes a handler that leaves the sections loop at its end.
Completes(w) ==
  /\ Resumes(w)
  /\ ~Calls(w)
  /\ Head(timers[w]).requestId = workerActiveRequestId[w]

\* C6: every solver call of a SolutionsRequest [rangeStart, rangeEnd) with
\* rangeEnd > rangeStart is on a non-empty sub-range, one of
\* min(rangeEnd - rangeStart, 4) whose sizes differ by at most one; the first
\* starts at rangeStart, the last ends at rangeEnd, and each one starts where
\* the previous one ended.
C6_SectionsPartitionRange ==
  [][\A w \in Workers :
       /\ Calls(w) =>
            LET c == Call(w)
                range == c.rangeEnd - c.rangeStart
                size == c.end - c.start
            IN /\ range > 0
               /\ c.sections = Min(range, 4)
               /\ c.index \in 0 .. (c.sections - 1)
               /\ size >= 1
               /\ size \in {range \div c.sections, (range \div c.sections) + 1}
               /\ c.index = 0 =>
                    /\ HandlesSolutionsRequest(w)
                    /\ c.rangeStart = Head(inbox[w]).rangeStart
                    /\ c.rangeEnd = Head(inbox[w]).rangeEnd
                    /\ c.start = c.rangeStart
               /\ c.index = c.sections - 1 => c.end = c.rangeEnd
               /\ c.index > 0 =>
                    /\ Resumes(w)
                    /\ Head(timers[w]).requestId = c.requestId
                    /\ Head(timers[w]).rangeStart = c.rangeStart
                    /\ Head(timers[w]).rangeEnd = c.rangeEnd
                    /\ Head(timers[w]).index = c.index - 1
                    /\ Head(timers[w]).end = c.start
       /\ Completes(w) =>
            /\ Head(timers[w]).index = Min(Head(timers[w]).rangeEnd
                                             - Head(timers[w]).rangeStart, 4) - 1
            /\ Head(timers[w]).end = Head(timers[w]).rangeEnd]_vars

\* The last of four sections of a five-element range has been searched, the
\* sections having unequal sizes.
C6_Witness ==
  \E w \in Workers :
    /\ timers[w] # <<>>
    /\ Head(timers[w]).rangeEnd - Head(timers[w]).rangeStart = 5
    /\ Head(timers[w]).index = 3
    /\ Head(timers[w]).end - Head(timers[w]).start = 1
    /\ Head(timers[w]).end = Head(timers[w]).rangeEnd
    /\ emitted[w].count = 4

\* The message worker w posted in this step, if it posted exactly one.
Posted(w) == toPool'[w][Len(toPool'[w])]
PostsOne(w) ==
  /\ Len(toPool'[w]) = Len(toPool[w]) + 1
  /\ toPool'[w] = Append(toPool[w], Posted(w))

\* What worker w had emitted for request r before this step.
EmittedFor(w, r) ==
  IF emitted[w].requestId = r THEN emitted[w].count ELSE 0

\* C7: the worker posts exactly one SolutionsResponse per sub-range, in
\* sub-range order and tagged with the id of the SolutionsRequest it answers;
\* isFinalResponse is true on the last sub-range's response only; a request
\* run to completion has had one response per sub-range; a worker posts at
\* most one final response per request and nothing for it afterwards.
C7_OneResponsePerSection ==
  [][\A w \in Workers :
       /\ Calls(w) =>
            LET c == Call(w)
            IN /\ PostsOne(w)
               /\ Posted(w).type = "SolutionsResponse"
               /\ Posted(w).requestId = c.requestId
               /\ Posted(w).isFinalResponse <=> (c.index = c.sections - 1)
               /\ EmittedFor(w, c.requestId) = c.index
               /\ emitted'[w].requestId = c.requestId
               /\ emitted'[w].count = c.index + 1
       /\ (toPool'[w] # toPool[w] /\ PostsOne(w)
             /\ Posted(w).type = "SolutionsResponse")
            => Calls(w)
       /\ emitted'[w].finals <= 1
       /\ (emitted[w].finals = 1
             /\ emitted'[w].requestId = emitted[w].requestId)
            => emitted'[w] = emitted[w]
       /\ Completes(w) =>
            LET h == Head(timers[w])
            IN /\ emitted[w].requestId = h.requestId
               /\ emitted[w].count = h.sections
               /\ emitted[w].finals = 1
               /\ toPool' = toPool]_vars

\* A worker has run a request of four sub-ranges to completion.
C7_Witness ==
  \E w \in Workers :
    /\ emitted[w].count = 4
    /\ emitted[w].finals = 1
    /\ timers[w] = <<>>
    /\ validWords[w] = Null

\* C8: once the worker's activeRequestId differs from a suspended handler's
\* request id it stays different, and the handler, resumed, makes no solver
\* call and posts nothing; every solver call is made for the request that is
\* active on the worker, after an id check when it is not the first
\* sub-range, and one step computes at most one sub-range of a request.
C8_SupersededHandlerStops ==
  [][\A w \in Workers :
       /\ (Resumes(w)
             /\ Head(timers[w]).requestId # workerActiveRequestId[w])
            => /\ ~Calls(w)
               /\ toPool' = toPool
               /\ emitted' = emitted
               /\ searched' = searched
       /\ \A n \in 1 .. Len(timers[w]) :
            /\ timers[w][n].requestId <= workerActiveRequestId[w]
            /\ timers[w][n].requestId < workerActiveRequestId[w]
                 => timers[w][n].requestId < workerActiveRequestId'[w]
       /\ Calls(w) =>
            /\ workerActiveRequestId'[w] = Call(w).requestId
            /\ Call(w).index > 0 =>
                 /\ Resumes(w)
                 /\ Head(timers[w]).requestId = workerActiveRequestId[w]
            /\ emitted'[w].count = EmittedFor(w, Call(w).requestId) + 1
            /\ Len(toPool'[w]) = Len(toPool[w]) + 1]_vars

\* A handler with sub-ranges left is suspended while its worker has already
\* handled a request with another id.
C8_Witness ==
  \E w \in Workers :
    /\ timers[w] # <<>>
    /\ Head(timers[w]).requestId # workerActiveRequestId[w]
    /\ Head(timers[w]).index < Head(timers[w]).sections - 1

\* The solutions of a bucket without the request id they arrived under.
Untagged(bucket) ==
  [n \in 1 .. Len(bucket) |->
     [words |-> bucket[n].words, first |-> bucket[n].first]]

Occurrences(seq, x) == Cardinality({n \in 1 .. Len(seq) : seq[n] = x})

SameMultiset(s, t) ==
  /\ Len(s) = Len(t)
  /\ \A n \in 1 .. Len(s) : Occurrences(s, s[n]) = Occurrences(t, s[n])

\* Every worker was posted its range of the active request and has nothing
\* left to do for it; all its responses have been handled.
AllWorkersFinished ==
  /\ rangeClosure # <<>>
  /\ PostedWorkers = Workers
  /\ \A w \in Workers :
       inbox[w] = <<>> /\ toPool[w] = <<>> /\ timers[w] = <<>>

\* C9: once all workers have finished a request that was not superseded (and
\* whenever a final snapshot is dispatched), each bucket holds, as a
\* multiset, the result of one solver run over [0, n) on the request's
\* candidate list -- for every worker count and interleaving: every first-word
\* index is searched exactly once.
C9_PartitionExhaustive ==
  (AllWorkersFinished \/ (dispatched # <<>> /\ Snapshot.isFinalResponse)) =>
    LET closure == rangeClosure[1]
        whole == wasmSolutions(registerValidWords(closure.serializedWords),
                               0, closure.wordCount)
    IN /\ \A b \in Buckets : SameMultiset(Untagged(solutions[b]), whole[b])
       /\ \A i \in WordIndexes :
            searched[i] = (IF i < closure.wordCount THEN 1 ELSE 0)

\* Two workers have finished a request of two candidates, one each, and the
\* buckets hold both solutions.
C9_Witness ==
  /\ solverCount = 2
  /\ AllWorkersFinished
  /\ rangeClosure[1].wordCount = 2
  /\ Cardinality(AllSolutions(solutions)) = 2
  /\ searched[0] = 1
  /\ searched[1] = 1

\* The pool takes the message at the head of worker w's queue.
PoolHandles(w) ==
  /\ toPool[w] # <<>>
  /\ toPool'[w] = Tail(toPool[w])

StaleAtHead(w) ==
  /\ toPool[w] # <<>>
  /\ Head(toPool[w]).type \in {"SolutionsResponse", "ValidWordsResponse"}
  /\ Head(toPool[w]).requestId # poolActiveRequestId

\* C10: handling a SolutionsResponse or ValidWordsResponse whose requestId is
\* not the pool's active id changes neither the buckets, nor the
\* pending-worker count, nor the active id, dispatches no SolutionsUpdated
\* and posts nothing to any worker.
C10_StaleResponseIgnored ==
  [][\A w \in Workers :
       (StaleAtHead(w) /\ PoolHandles(w)) =>
         /\ solutions' = solutions
         /\ activeWorkerCount' = activeWorkerCount
         /\ poolActiveRequestId' = poolActiveRequestId
         /\ dispatched' = <<>>
         /\ inbox' = inbox]_vars

\* A SolutionsResponse of a superseded request, with solutions, is next to be
\* handled while the pool is collecting the active request's solutions.
C10_Witness ==
  \E w \in Workers :
    /\ StaleAtHead(w)
    /\ Head(toPool[w]).type = "SolutionsResponse"
    /\ AllSolutions(Head(toPool[w]).solutions) # {}
    /\ AllSolutions(solutions) # {}
    /\ activeWorkerCount > 0

\* Every message and pending callback tagged with request id r: the messages
\* in flight in both directions, the suspended handlers and the reactions
\* waiting on worker.ready.
TaggedWith(r) ==
  \E w \in Workers :
    \/ \E n \in 1 .. Len(inbox[w]) :
         inbox[w][n].type \in {"ValidWordsRequest", "SolutionsRequest"}
           /\ inbox[w][n].requestId = r
    \/ \E n \in 1 .. Len(toPool[w]) :
         toPool[w][n].type \in {"ValidWordsResponse", "SolutionsResponse"}
           /\ toPool[w][n].requestId = r
    \/ \E n \in 1 .. Len(timers[w]) : timers[w][n].requestId = r
    \/ \E n \in 1 .. Len(readyCallbacks[w]) : readyCallbacks[w][n].requestId = r

IsPrefix(s, t) == Len(s) <= Len(t) /\ SubSeq(t, 1, Len(s)) = s

\* C12: while the pool's request id stays the same, each of the five buckets
\* only grows by appending, so from one snapshot of a request to the next the
\* earlier contents are a prefix and the cumulative count does not decrease;
\* every snapshot carries the active request id.
C12_BucketsGrowByAppending ==
  [][/\ poolActiveRequestId' = poolActiveRequestId =>
          /\ \A b \in Buckets : IsPrefix(solutions[b], solutions'[b])
          /\ TotalCount(solutions') >= TotalCount(solutions)
     /\ dispatched' # <<>> =>
          /\ dispatched'[1].requestId = poolActiveRequestId
          /\ poolActiveRequestId' = poolActiveRequestId]_vars

\* A snapshot is dispatched whose buckets hold the solutions of both workers
\* of the pool, the second worker's appended to the first's snapshot.
C12_Witness ==
  /\ dispatched # <<>>
  /\ solverCount = 2
  /\ TotalCount(solutions) = 2
  /\ \E b, c \in Buckets : \E m \in 1 .. Len(solutions[b]) :
       \E n \in 1 .. Len(solutions[c]) :
         solutions[b][m].first # solutions[c][n].first

\* Exactly twelve distinct uppercase letters.
TwelveDistinctLetters(s) ==
  /\ Len(s) = 12
  /\ \A i \in 1 .. Len(s) : s[i] \in UpperLetters
  /\ \A i, j \in 1 .. Len(s) : i # j => s[i] # s[j]

\* The InputChanged listener of the page's active request gets past its
\* await in this step.
ActiveListenerResumes ==
  \/ datesByInput = "loaded" /\ activeRequestId' # activeRequestId
  \/ /\ datesByInput = "fetching" /\ datesByInput' = "loaded"
     /\ \E n \in 1 .. Len(inputChangedHandlers) :
          inputChangedHandlers[n] = activeRequestId

\* The messages the pool posts to worker w in this step.
PostedTo(w) ==
  IF Len(inbox'[w]) > Len(inbox[w])
  THEN {inbox'[w][n] : n \in (Len(inbox[w]) + 1) .. Len(inbox'[w])}
  ELSE {}

\* C13: the pool is only ever called with the page's current request id and
\* an input of twelve distinct uppercase letters; every ValidWordsRequest
\* carries such an input and every request posted to a worker is one of the
\* pool's active request, so nothing is posted for any other input; when the
\* listener of the active request finds another input, it sets the solution
\* lists to empty for the new request id and leaves the pool and every
\* worker's queue as they were.
C13_InvalidInputSendsNothing ==
  [][/\ poolActiveRequestId' # poolActiveRequestId =>
          /\ TwelveDistinctLetters(value')
          /\ poolActiveRequestId' = activeRequestId'
     /\ \A w \in Workers : \A n \in 1 .. Len(inbox'[w]) :
          inbox'[w][n].type = "ValidWordsRequest"
            => TwelveDistinctLetters(inbox'[w][n].text)
     /\ \A w \in Workers : \A m \in PostedTo(w) :
          m.type \in {"ValidWordsRequest", "SolutionsRequest"}
            => m.requestId = poolActiveRequestId'
     /\ (ActiveListenerResumes /\ ~TwelveDistinctLetters(value')) =>
          /\ solutionLists' = [requestId |-> activeRequestId',
                               solutions |-> EmptySolutions]
          /\ noSolutionsCard' = "hidden"
          /\ UNCHANGED <<poolVars, inbox, toPool, readyCallbacks>>]_vars

\* The input has changed to one with a duplicate letter while the pool holds
\* solutions of the previous, valid input: the lists were cleared for the new
\* request id and the pool is still on the old one.
C13_Witness ==
  /\ activeRequestId = 2
  /\ value = Duplicate
  /\ solutionLists = [requestId |-> 2, solutions |-> EmptySolutions]
  /\ poolActiveRequestId = 1
  /\ TotalCount(solutions) > 0

\* C14: an initialised worker handling a SolutionsRequest with a non-empty
\* range whose serialized candidate list cannot be decoded posts one
\* SolutionsResponse for that request id, final and with zero solutions.
C14_DecodeFailureAcknowledged ==
  [][\A w \in Workers :
       (/\ HandlesSolutionsRequest(w)
        /\ wasmInitialized[w]
        /\ Head(inbox[w]).serializedWords = Malformed
        /\ Head(inbox[w]).rangeStart < Head(inbox[w]).rangeEnd)
       => toPool'[w] = Append(toPool[w],
                              [type |-> "SolutionsResponse",
                               requestId |-> Head(inbox[w]).requestId,
                               solutions |-> EmptySolutions,
                               isFinalResponse |-> TRUE])]_vars

\* The type tags each receiver handles.
HandledTypes(receiver) ==
  IF receiver = "pool"
  THEN {"WasmInitialized", "ValidWordsResponse", "SolutionsResponse"}
  ELSE IF receiver = "solver"
  THEN {"InitializeWasmRequest", "ValidWordsRequest", "SolutionsRequest"}
  ELSE IF receiver = "sorter" THEN {"SortedSolutionsRequest"}
  ELSE {"SortedSolutionsResponse"}

\* C15: every receiver (the pool, the solver worker, the sorter worker and
\* the solution list) raises an error for a message whose type tag is not
\* one it handles.
C15_UnknownTypeThrows ==
  delivered # <<>> =>
    (delivered[1].data.type \notin HandledTypes(delivered[1].receiver)
       => delivered[1].outcome = "throws")

\* C16: request ids are non-negative and strictly increase with every
\* InputChanged event (a change of the input's value); the pool's active
\* request id never decreases and is never above the page's activeRequestId.
C16_RequestIdsIncrease ==
  [][/\ activeRequestId >= 0
     /\ value' # value => activeRequestId' > activeRequestId
     /\ activeRequestId' >= activeRequestId
     /\ poolActiveRequestId' >= poolActiveRequestId
     /\ poolActiveRequestId' <= activeRequestId'
     /\ poolActiveRequestId' # poolActiveRequestId => poolActiveRequestId' >= 0]_vars

\* The page is at its second request or later and the pool has adopted it.
C16_Witness ==
  /\ activeRequestId > 1
  /\ poolActiveRequestId = activeRequestId

\* The SolutionsRequests of the active request waiting in worker w's inbox.
ActiveSolutionsRequests(w) ==
  {m \in {inbox[w][n] : n \in 1 .. Len(inbox[w])} :
     /\ m.type = "SolutionsRequest"
     /\ m.requestId = poolActiveRequestId}

\* The ValidWordsRequests posted for the active request: never more than
\* one, to worker requestId mod k, and one as soon as that worker is ready.
OneValidWordsRequest ==
  poolActiveRequestId # Null =>
    LET target == poolActiveRequestId % solverCount
    IN /\ Len(postedValidWords) <= 1
       /\ \A n \in 1 .. Len(postedValidWords) : postedValidWords[n] = target
       /\ workerReady[target] => Len(postedValidWords) = 1
       /\ PostedWorkers # {} => Len(postedValidWords) = 1

\* Every SolutionsRequest of the active request carries the list of the one
\* ValidWordsResponse accepted for it.
SameSerializedWords ==
  \A w \in Workers : \A m \in ActiveSolutionsRequests(w) :
    /\ rangeClosure # <<>>
    /\ rangeClosure[1].requestId = m.requestId
    /\ m.serializedWords = rangeClosure[1].serializedWords

\* The list of the active request is received once.
SerializedOnce ==
  (/\ rangeClosure # <<>>
   /\ rangeClosure' # <<>>
   /\ rangeClosure'[1].requestId = rangeClosure[1].requestId)
    => rangeClosure'[1].serializedWords = rangeClosure[1].serializedWords

\* Worker w decodes when it takes a SolutionsRequest, before the first
\* sub-range is searched, and at no other time; the later sub-ranges are
\* searched against the list registered then.
DecodesOncePerRequest(w) ==
  /\ (HandlesSolutionsRequest(w) /\ wasmInitialized[w])
       => validWords'[w] = registerValidWords(Head(inbox[w]).serializedWords)
  /\ (validWords'[w] # validWords[w] /\ validWords'[w] # Null)
       => HandlesSolutionsRequest(w)
  /\ (Resumes(w) /\ Calls(w))
       => /\ validWords'[w] = validWords[w]
          /\ validWords[w] # Null
          /\ (/\ Call(w).requestId = poolActiveRequestId
              /\ rangeClosure # <<>>)
               => validWords[w]
                    = registerValidWords(rangeClosure[1].serializedWords)

\* C17: for the request that is not superseded, one ValidWordsRequest is
\* posted, to worker requestId mod k; every worker's SolutionsRequest of it
\* carries the same serialized candidate list; each worker decodes it once
\* per SolutionsRequest, before its first sub-range, and reuses it for all
\* the sub-ranges.
C17_ListSerializedOnceDecodedPerWorker ==
  /\ [](OneValidWordsRequest /\ SameSerializedWords)
  /\ [][SerializedOnce /\ \A w \in Workers : DecodesOncePerRequest(w)]_vars

\* Two workers hold a SolutionsRequest range of the active request, its one
\* ValidWordsRequest went to worker requestId mod k, and a worker has decoded
\* the list and searched its first sub-range.
C17_Witness ==
  /\ solverCount = 2
  /\ PostedWorkers = {0, 1}
  /\ postedValidWords = <<poolActiveRequestId % solverCount>>
  /\ \E w \in PostedWorkers :
       /\ validWords[w] # Null
       /\ emitted[w].requestId = poolActiveRequestId
       /\ emitted[w].count >= 1

\* The paths of the returned payload, and the payload's buckets.
PayloadBuckets == solutionsPayload[1]
EmittedPaths ==
  IF solutionsPayload = <<>> THEN {}
  ELSE UNION {{PayloadBuckets[b][n] : n \in 1 .. Len(PayloadBuckets[b])} :
                b \in Buckets}

\* The letters of a path's words in order, a join letter written once.
RECURSIVE Joined(_, _)
Joined(W, path) ==
  IF Len(path) = 1 THEN WordAt(W, path[1])
  ELSE Joined(W, SubSeq(path, 1, Len(path) - 1))
         \o Tail(WordAt(W, path[Len(path)]))

\* C18: every emitted solution has 1 to 5 candidate words, each word after
\* the first starts with the last letter of the word before it, the words
\* use all twelve board letters, and no letter occurs twice except the join
\* letter two consecutive words share.
C18_SolutionsAreValid ==
  \A path \in EmittedPaths :
    /\ Len(path) \in 1 .. 5
    /\ \A j \in 1 .. Len(path) : path[j] \in 0 .. (Len(candidates) - 1)
    /\ \A j \in 2 .. Len(path) :
         first(WordAt(candidates, path[j]))
           = last(WordAt(candidates, path[j - 1]))
    /\ to_mask(Joined(candidates, path)) = full_mask
    /\ Len(Joined(candidates, path)) = InputCount

\* The payload holds a solution of five words.
C18_Witness ==
  /\ solutionsPayload # <<>>
  /\ PayloadBuckets[5] # <<>>
  /\ Len(PayloadBuckets[5][1]) = 5

\* The index sequences of k words that satisfy the chain rule.
RECURSIVE ChainPaths(_, _)
ChainPaths(W, k) ==
  IF k = 1 THEN {<<i>> : i \in 0 .. (Len(W) - 1)}
  ELSE UNION {{Append(p, j) :
                 j \in {i \in 0 .. (Len(W) - 1) :
                          first(WordAt(W, i)) = last(WordAt(W, p[k - 1]))}} :
                p \in ChainPaths(W, k - 1)}

\* The solution invariant: chain rule, coverage rule, no-repeat rule.
IsSolution(W, p) ==
  /\ Len(p) \in 1 .. 5
  /\ \A j \in 2 .. Len(p) :
       first(WordAt(W, p[j])) = last(WordAt(W, p[j - 1]))
  /\ UNION {to_mask(WordAt(W, p[j])) : j \in 1 .. Len(p)} = full_mask
  /\ \A a \in 1 .. Len(p) : \A b \in (a + 1) .. Len(p) :
       to_mask(WordAt(W, p[a])) \cap to_mask(WordAt(W, p[b]))
         = IF b = a + 1 THEN {last(WordAt(W, p[a]))} ELSE {}

\* How often bucket b of the payload holds path p.
TimesEmitted(p, b) ==
  Cardinality({n \in 1 .. Len(PayloadBuckets[b]) : PayloadBuckets[b][n] = p})

FirstInRange(p) ==
  p[1] \in solverRange.range_start .. (solverRange.range_end - 1)

\* C19: solutions(lo, hi) emits exactly the index sequences that satisfy the
\* solution invariant and start with a word of index in [lo, hi), each once
\* and in the bucket of its word count, and emits nothing when lo = hi or the
\* candidate list is empty.
C19_EmitsExactlyTheSolutionsOfRange ==
  solutionsPayload # <<>> =>
    /\ \A b \in Buckets : \A n \in 1 .. Len(PayloadBuckets[b]) :
         LET p == PayloadBuckets[b][n]
         IN /\ Len(p) = b
            /\ \A j \in 1 .. Len(p) : p[j] \in 0 .. (Len(candidates) - 1)
            /\ IsSolution(candidates, p)
            /\ FirstInRange(p)
            /\ TimesEmitted(p, b) = 1
    /\ \A k \in Buckets : \A p \in ChainPaths(candidates, k) :
         (IsSolution(candidates, p) /\ FirstInRange(p))
           => TimesEmitted(p, k) = 1
    /\ (solverRange.range_start = solverRange.range_end \/ candidates = <<>>)
         => PayloadBuckets = EmptySolutions

\* A call on a proper sub-range returns a solution while the list holds
\* another solution whose first word lies outside the range.
C19_Witness ==
  /\ solutionsPayload # <<>>
  /\ solverRange.range_start > 0
  /\ solverRange.range_end < Len(candidates)
  /\ EmittedPaths # {}
  /\ \E k \in Buckets : \E p \in ChainPaths(candidates, k) :
       IsSolution(candidates, p) /\ ~FirstInRange(p)

ProperPrefix(p, q) ==
  /\ Len(p) < Len(q)
  /\ SubSeq(q, 1, Len(p)) = p

\* C20: no emitted solution is a proper prefix of another one: the letters
\* of an emitted path are the full board, so every candidate that could
\* extend it shares more than the join letter with it.
C20_NoSolutionIsPrefixOfAnother ==
  \A p \in EmittedPaths :
    /\ \A q \in EmittedPaths : ~ProperPrefix(p, q)
    /\ to_mask(Joined(candidates, p)) = full_mask
    /\ \A j \in 0 .. (Len(candidates) - 1) :
         Cardinality(to_mask(WordAt(candidates, j))
                       \cap to_mask(Joined(candidates, p))) > 1

\* A single word that uses all twelve letters is emitted, the list holds
\* words that start with its last letter, and a longer solution is emitted
\* next to it.
C20_Witness ==
  /\ solutionsPayload # <<>>
  /\ PayloadBuckets[1] # <<>>
  /\ \E j \in 0 .. (Len(candidates) - 1) :
       first(WordAt(candidates, j))
         = last(WordAt(candidates, PayloadBuckets[1][1][1]))
  /\ \E b \in 2 .. BucketCount : PayloadBuckets[b] # <<>>

\* C23: for a string s of 0 to 12 uppercase letters, to_ascii(from_ascii(s))
\* is s and len(from_ascii(s)) is |s|, with leading or only A's too; a push
\* onto a sequence shorter than 12 makes it one longer and keeps every
\* earlier letter at its index.
C23_LetterSequenceRoundTrip ==
  /\ [](/\ to_ascii(from_ascii(asciiLetters)) = asciiLetters
        /\ len(from_ascii(asciiLetters)) = Len(asciiLetters)
        /\ letterSequence = from_ascii(asciiLetters))
  /\ [][/\ len(letterSequence) < Capacity
        /\ len(letterSequence') = len(letterSequence) + 1
        /\ \A i \in 0 .. (len(letterSequence) - 1) :
             at(letterSequence', i) = at(letterSequence, i)
        /\ at(letterSequence', len(letterSequence))
             = asciiLetters'[Len(asciiLetters')]]_vars

\* Twelve letters were pushed, the first ones and the last one A's.
C23_Witness ==
  /\ Len(asciiLetters) = Capacity
  /\ asciiLetters[1] = "A"
  /\ asciiLetters[2] = "A"
  /\ asciiLetters[3] = "Z"
  /\ asciiLetters[Capacity] = "A"

\* The words of the candidate list, as letters.
CandidateTexts == {to_ascii(candidateWords[n]) : n \in 1 .. Len(candidateWords)}
DictionaryWordSet == {dictionaryWords[n] : n \in 1 .. Len(dictionaryWords)}

\* The four rules, read off the letters of a word and the sides of a board.
MeetsRules(board, word) ==
  /\ Len(word) >= 3
  /\ \A i \in 1 .. Len(word) : \E n \in 1 .. Len(board) : word[i] = board[n]
  /\ \A i \in 1 .. (Len(word) - 1) :
       \A n, m \in 1 .. Len(board) :
         (word[i] = board[n] /\ word[i + 1] = board[m])
           => (n - 1) \div 3 # (m - 1) \div 3
  /\ \A i, j \in 1 .. Len(word) : i # j => word[i] # word[j]

\* C21: a dictionary word (case folded) is in the candidate list
\* getValidWords returns for board B if and only if it has at least 3
\* letters, every letter is one of B's twelve, no two consecutive letters lie
\* on the same side of B and no letter occurs twice.
C21_FilterCorrectness ==
  encodedWords # <<>> =>
    /\ \A word \in DictionaryWordSet :
         Fold(word) \in CandidateTexts <=> MeetsRules(puzzleBoard, Fold(word))
    /\ \A text \in CandidateTexts : \E word \in DictionaryWordSet :
         Fold(word) = text

\* The filter kept a word and dropped one that breaks the side rule alone.
C21_Witness ==
  /\ encodedWords # <<>>
  /\ candidateWords # <<>>
  /\ \E word \in DictionaryWordSet :
       /\ word \notin CandidateTexts
       /\ Len(word) >= 3
       /\ \A i \in 1 .. Len(word) : word[i] \in BoardMask(puzzleBoard)
       /\ \A i, j \in 1 .. Len(word) : i # j => word[i] # word[j]

\* C22: decoding the serialized candidate list recovers the encoded list,
\* in the same order and with the same count: the list registerValidWords
\* stores is the list getValidWords produced.
C22_SerializerRoundTrip ==
  /\ encodedWords # <<>> =>
       /\ Len(encodedWords) = 4 + 8 * Len(candidateWords)
       /\ ~decode(encode(candidateWords)).malformed
       /\ decode(encode(candidateWords)).list = candidateWords
  /\ decodedWords # <<>> =>
       /\ Len(decodedWords[1]) = Len(candidateWords)
       /\ \A n \in 1 .. Len(candidateWords) :
            decodedWords[1][n] = candidateWords[n]

\* A list of three words or more went through encode and decode.
C22_Witness ==
  /\ decodedWords # <<>>
  /\ Len(decodedWords[1]) >= 3
  /\ Len(candidateWords) >= 3

C25_PendingCountInRange ==
  /\ activeWorkerCount >= 0
  /\ activeWorkerCount <= solverCount
  /\ \A w \in Workers :
       /\ acceptedFinals[w] <= 1
       /\ emitted[w].finals <= 1
  /\ poolActiveRequestId # Null
       => activeWorkerCount = solverCount - SumOver(acceptedFinals, Workers)

\* Both workers of a pool of two have had their final emission accepted and
\* the count is back at 0.
C25_Witness ==
  /\ solverCount = 2
  /\ poolActiveRequestId # Null
  /\ \A w \in Workers : acceptedFinals[w] = 1
  /\ activeWorkerCount = 0

\* C26: for each request id at most one dispatched snapshot is final, and no
\* snapshot of that request id is dispatched after it: every snapshot is of
\* the active request, and once the active request's final snapshot is out
\* nothing is dispatched until a newer request is active.
C26_OneFinalSnapshotPerRequest ==
  /\ [](finalSnapshots <= 1)
  /\ [][/\ dispatched' # <<>>
             => /\ dispatched'[1].requestId = poolActiveRequestId'
                /\ poolActiveRequestId' = poolActiveRequestId
        /\ poolActiveRequestId' >= poolActiveRequestId
        /\ (finalSnapshots >= 1 /\ poolActiveRequestId' = poolActiveRequestId)
             => dispatched' = <<>>]_vars

\* The final snapshot of a request of two workers is out, and the pool has
\* taken a further step under the same request.
C26_Witness ==
  /\ solverCount = 2
  /\ finalSnapshots = 1
  /\ dispatched = <<>>
  /\ activeWorkerCount = 0

RequestTypes == {"ValidWordsRequest", "SolutionsRequest"}

\* The request ids of the requests waiting in worker w's inbox, in order.
InboxRequestIds(w) ==
  LET requests == SelectSeq(inbox[w], LAMBDA m : m.type \in RequestTypes)
  IN [n \in 1 .. Len(requests) |-> requests[n].requestId]

\* C27: a ValidWordsRequest or SolutionsRequest is posted only with the
\* pool's active request id of that moment, so a superseded request posts
\* nothing further; the request ids a worker receives, and its
\* activeRequestId, never decrease.
C27_OnlyActiveRequestIsPosted ==
  /\ [](\A w \in Workers :
          LET ids == InboxRequestIds(w)
          IN /\ \A n \in 1 .. Len(ids) : ids[n] <= poolActiveRequestId
             /\ \A n \in 2 .. Len(ids) : ids[n - 1] <= ids[n]
             /\ (ids # <<>> /\ wasmInitialized[w])
                  => workerActiveRequestId[w] <= ids[1])
  /\ [][\A w \in Workers :
          /\ \A m \in PostedTo(w) :
               m.type \in RequestTypes => m.requestId = poolActiveRequestId'
          /\ workerActiveRequestId'[w] >= workerActiveRequestId[w]]_vars

\* A request was superseded while its callback waits for a worker that is
\* not ready, and a worker has taken up the newer request.
C27_Witness ==
  /\ \E w \in Workers : \E n \in 1 .. Len(readyCallbacks[w]) :
       readyCallbacks[w][n].requestId < poolActiveRequestId
  /\ \E w \in Workers : workerActiveRequestId[w] = poolActiveRequestId

\* C28: every solver call made for a SolutionsRequest runs against the list
\* that same request registered, and a handler that leaves the sections loop
\* clears the list it registered itself, never the list of a newer request,
\* however a suspended older handler interleaves with a newer one.
C28_SolverCallsUseOwnList ==
  [][\A w \in Workers :
       /\ Calls(w)
            => /\ validWords'[w] # Null
               /\ registeredBy'[w] = Call(w).requestId
               /\ Resumes(w) => validWords'[w] = validWords[w]
       /\ Completes(w)
            => /\ registeredBy[w] = Head(timers[w]).requestId
               /\ validWords'[w] = Null
       /\ (Resumes(w) /\ ~Completes(w) /\ ~Calls(w))
            => /\ validWords'[w] = validWords[w]
               /\ registeredBy'[w] = registeredBy[w]]_vars

\* A suspended older handler shares the worker with a newer request whose
\* list is registered and has been searched.
C28_Witness ==
  \E w \in Workers :
    /\ timers[w] # <<>>
    /\ Head(timers[w]).requestId < registeredBy[w]
    /\ emitted[w].requestId = registeredBy[w]
    /\ validWords[w] # Null

\* Worker w takes a ValidWordsRequest or SolutionsRequest off its inbox.
HandlesRequest(w) ==
  /\ inbox[w] # <<>>
  /\ Head(inbox[w]).type \in RequestTypes
  /\ inbox'[w] = Tail(inbox[w])

\* C29: the pool posts a ValidWordsRequest or SolutionsRequest to a worker
\* only once it has received that worker's WasmInitialized, so a worker
\* handles requests only with its WASM module initialised and drops none.
C29_RequestsOnlyAfterWasmInitialized ==
  /\ [](\A w \in Workers :
          /\ workerReady[w] => wasmInitialized[w]
          /\ InboxRequestIds(w) # <<>> => workerReady[w])
  /\ [][\A w \in Workers :
          /\ (\E m \in PostedTo(w) : m.type \in RequestTypes)
               => workerReady'[w] /\ wasmInitialized[w]
          /\ HandlesRequest(w)
               => /\ wasmInitialized[w]
                  /\ workerActiveRequestId'[w] = Head(inbox[w]).requestId]_vars

\* A request waited for a worker's WasmInitialized and was then handled by
\* that worker, while another worker is not ready yet.
C29_Witness ==
  /\ \E w \in Workers :
       /\ workerActiveRequestId[w] = poolActiveRequestId
       /\ postedRanges[w] # <<>>
  /\ \E w \in Workers : ~workerReady[w] /\ readyCallbacks[w] # <<>>

\* C30: a SolutionsUpdated event of a request other than the page's active
\* one changes no solution list, nor the header count, nor the no-solutions
\* card, also while the pool still publishes the request that an invalid
\* newer input left in place.
C30_StaleEventChangesNothing ==
  [][(/\ dispatched' # <<>>
      /\ dispatched'[1].requestId # activeRequestId')
       => /\ activeRequestId' = activeRequestId
          /\ solutionLists' = solutionLists
          /\ solutionsHeaderCount' = solutionsHeaderCount
          /\ noSolutionsCard' = noSolutionsCard]_vars

\* The newer input was invalid: the pool still runs the older request and
\* has just published a snapshot with solutions, which the page left out.
C30_Witness ==
  /\ dispatched # <<>>
  /\ dispatched[1].requestId = poolActiveRequestId
  /\ dispatched[1].requestId < activeRequestId
  /\ ~isInputValid(value)
  /\ TotalCount(solutions) > 0
  /\ solutionsHeaderCount = 0

\* A step of the page script: an InputChanged event, or the date table
\* settling and resuming the suspended listeners.
PageScriptStep ==
  \/ activeRequestId' # activeRequestId
  \/ datesByInput' # datesByInput

\* C31: sendSolutionsRequest is called at most once per InputChanged event
\* and only with the page's current activeRequestId; a listener superseded
\* while it awaited the date lookup sends nothing to the pool and clears no
\* solution list.
C31_OneRequestPerInputChanged ==
  /\ [](poolActiveRequestId <= activeRequestId)
  /\ [][/\ poolActiveRequestId' # poolActiveRequestId
            => /\ poolActiveRequestId' = activeRequestId'
               /\ poolActiveRequestId' > poolActiveRequestId
        /\ (PageScriptStep /\ poolActiveRequestId' = poolActiveRequestId)
            => UNCHANGED <<poolVars, inbox, toPool, workerVars, historyVars>>
        /\ (PageScriptStep /\ solutionLists' # solutionLists)
            => /\ solutionLists'.requestId = activeRequestId'
               /\ poolActiveRequestId' = poolActiveRequestId]_vars

\* Two listeners are suspended on the date lookup; the older one has been
\* superseded by a newer event with a valid input.
C31_Witness ==
  /\ datesByInput = "fetching"
  /\ Len(inputChangedHandlers) = 2
  /\ inputChangedHandlers[1] < activeRequestId
  /\ inputChangedHandlers[2] = activeRequestId
  /\ isInputValid(value)

\* Of two words of one length, `lhsWord` is the alphabetically smaller.
AlphabeticallySmaller(lhsWord, rhsWord) ==
  \E p \in 1 .. Len(lhsWord) :
    /\ \A q \in 1 .. (p - 1) : lhsWord[q] = rhsWord[q]
    /\ LetterCode(lhsWord[p]) < LetterCode(rhsWord[p])

\* Solution `lhs` may stand before `rhs`: they are equal, or at the first
\* word where they differ lhs has the shorter word or, with words of one
\* length, the alphabetically smaller one.
MayPrecede(lhs, rhs) ==
  LET lhsWords == split(lhs)
      rhsWords == split(rhs)
  IN \/ lhsWords = rhsWords
     \/ \E k \in 1 .. Len(lhsWords) :
          /\ \A m \in 1 .. (k - 1) : lhsWords[m] = rhsWords[m]
          /\ lhsWords[k] # rhsWords[k]
          /\ \/ Len(lhsWords[k]) < Len(rhsWords[k])
             \/ /\ Len(lhsWords[k]) = Len(rhsWords[k])
                /\ AlphabeticallySmaller(lhsWords[k], rhsWords[k])

\* C32: sortSolutions returns a permutation of its input in which the
\* solutions are ordered word by word, a shorter word first and, for words
\* of one length, the alphabetically smaller first.
C32_SortSolutionsOrdersWordByWord ==
  [][(sortRequest # <<>> /\ sortResponse' # <<>>)
       => LET unsorted == sortRequest[1].solutions
              sortedSolutions == sortResponse'[1].sortedSolutions
          IN /\ Len(sortedSolutions) = Len(unsorted)
             /\ \A n \in 1 .. Len(unsorted) :
                  Occurrences(sortedSolutions, unsorted[n])
                    = Occurrences(unsorted, unsorted[n])
             /\ \A i \in 1 .. Len(sortedSolutions) :
                  \A j \in (i + 1) .. Len(sortedSolutions) :
                    MayPrecede(sortedSolutions[i], sortedSolutions[j])
             /\ sortResponse'[1].requestId = sortRequest[1].requestId]_vars

\* A sorted list in which the shorter first word wins against the alphabet,
\* and the second word decides between equal first words.
C32_Witness ==
  /\ sortResponse # <<>>
  /\ sortResponse[1].sortedSolutions =
       << <<"B", " ", "A", "C">>, <<"A", "B", " ", "B">>,
          <<"A", "B", " ", "A", "B">> >>

\* The promises of sorted solutions that the step settles.
SettledNow ==
  {p \in 1 .. Len(solutionList.sortedPromises) :
     /\ ~solutionList.sortedPromises[p].settled
     /\ solutionList'.sortedPromises[p].settled}

\* C33: a SolutionList resolves its sorted-solutions promise only with a
\* SortedSolutionsResponse of its active request, posts a sort request only
\* if the request is still active when the idle callback runs, and never
\* shows an item of the sorted list of an older request.
C33_OnlyActiveRequestIsSortedAndRendered ==
  /\ [](\A n \in 1 .. Len(solutionList.content.chunks) :
          solutionList.content.chunks[n].requestId = solutionList.activeRequestId)
  /\ [][/\ \A p \in SettledNow :
             /\ sorterOutbox # <<>>
             /\ Head(sorterOutbox).requestId = solutionList.activeRequestId
             /\ p = solutionList.sortedSolutionsPromise
             /\ solutionList'.sortedPromises[p].value
                  = Head(sorterOutbox).sortedSolutions
             /\ solutionList'.sortedPromises[p].value.requestId
                  = solutionList'.activeRequestId
        /\ Len(sorterInbox') > Len(sorterInbox)
             => /\ solutionList.idleCallbacks # <<>>
                /\ sorterInbox'[Len(sorterInbox')].requestId
                     = solutionList.activeRequestId
                /\ sorterInbox'[Len(sorterInbox')]
                     = Head(solutionList.idleCallbacks)]_vars

\* The sort of an older request was dropped, and the list shows the sorted
\* solutions of the newer one.
C33_Witness ==
  /\ Len(solutionList.sortedPromises) = 2
  /\ ~solutionList.sortedPromises[1].settled
  /\ solutionList.sortedPromises[2].settled
  /\ solutionList.content.chunks # <<>>
  /\ solutionList.idleCallbacks = <<>>
  /\ sorterInbox = <<>>
  /\ sorterOutbox = <<>>

\* The rendered items are entries 0 .. currentChunkIndex - 1 of the sorted
\* solutions of the active request, in order and each once: the chunks
\* appended to the content are of that request, start at entry 0, follow one
\* another without gap or overlap and end at #currentChunkIndex.
RenderedIsPrefix(list) ==
  LET chunks == list.content.chunks
  IN /\ \A n \in 1 .. Len(chunks) :
          /\ chunks[n].requestId = list.activeRequestId
          /\ chunks[n].start < chunks[n].end
     /\ chunks[1].start = 0
     /\ \A n \in 1 .. (Len(chunks) - 1) : chunks[n].end = chunks[n + 1].start
     /\ chunks[Len(chunks)].end = list.currentChunkIndex
     /\ list.currentChunkIndex <= list.solutions.count

\* C34: whenever an expanded SolutionList has rendered items, they are
\* exactly the first #currentChunkIndex entries of the active request's
\* sorted solutions, in order and each once, also when expand is triggered
\* again while an earlier expand still awaits the sorted result.
C34_RenderedItemsArePrefix ==
  (solutionList.headerExpanded /\ solutionList.content.chunks # <<>>)
    => RenderedIsPrefix(solutionList)

\* C35: expanding a SolutionList whose request is still solving (solutions
\* shown, no final update, so no sort requested) does not fault:
\* #appendNextChunk is never invoked without a sorted list, and the loading
\* indicator stays in the content until the sorted result arrives.
C35_ExpandWhileSolvingDoesNotFault ==
  /\ ~solutionList.faulted
  /\ (/\ solutionList.headerExpanded
      /\ solutionList.sortedSolutionsPromise = 0
      /\ solutionList.solutions.count > 0)
       => solutionList.content.spinner

\* C36: after any sequence of operations on the LetrBoxdInput (the value
\* setter, the side setters, letter keys, letter removal, clear) its value is
\* exactly twelve characters long and each character is an uppercase letter
\* A-Z or an underscore.
C36_ValueIsTwelveSanitaryCharacters ==
  LET val == inputValue(letrBoxdInput)
  IN /\ Len(val) = InputCount
     /\ \A i \in 1 .. Len(val) : IsSanitary(val[i])

====
